---- MODULE Spec2Model ----
(***************************************************************************)
(* State-machine model of the possession engine of the match engine:       *)
(* simulate_game / simulate_possession (match_engine/sim.py),              *)
(* resolve_outcome (match_engine/resolve.py), the rotation and the         *)
(* validator entry (match_engine_mvp_plus_v08.py).                         *)
(*                                                                         *)
(* Conventions.                                                            *)
(*  - Every random draw (weighted_choice, rng.random() < p, rng.choice)    *)
(*    is a nondeterministic choice over the values the draw can take: a    *)
(*    key of positive weight, either side of a coin whose probability is   *)
(*    clamped strictly inside (0,1), any member of the list.               *)
(*  - Clocks are counted in ticks of 1/27 second, so that a time cost      *)
(*    multiplied by tempo_mult (1 or 1/1.08 = 25/27) stays an integer.     *)
(*  - Freshness (GameState.fatigue, 1.0 = fresh) is counted in             *)
(*    thousandths.                                                         *)
(***************************************************************************)
EXTENDS Integers, Sequences, FiniteSets, TLC

VARIABLES
    cfg,            \* inputs of simulate_game: era, strict flag, team names, rosters,
                    \* tactics; quarter length and possession cap of the model
    pc,             \* position in simulate_game
    lineup,         \* TeamState.lineup of each team (list of Player objects)
    roles,          \* TeamState.roles of each team (role -> pid, "" when absent)
    tm,             \* team totals of each TeamState
    outcome_counts, \* TeamState.outcome_counts
    shot_zones,     \* TeamState.shot_zones
    orig_lineups,   \* simulate_game local: team name -> saved lineup
    quarter,        \* GameState.quarter
    clock_sec,      \* GameState.clock_sec (ticks)
    shot_clock_sec, \* GameState.shot_clock_sec (ticks, may go below 0)
    total_possessions, \* simulate_game local, copied to GameState.possession
    team_fouls,     \* GameState.team_fouls (keyed by team name)
    player_fouls,   \* GameState.player_fouls (keyed by pid)
    fatigue,        \* GameState.fatigue: freshness by pid, thousandths
    minutes_played_sec, \* GameState.minutes_played_sec by pid
    on_court,       \* GameState.on_court_home / on_court_away
    targets,        \* GameState.targets_sec_home / targets_sec_away (0 = no entry)
    poss,           \* locals of the running possession
    hist,           \* history of the game, kept for the properties only
    call,           \* a helper called on its own: its name, arguments and result
    report,         \* ValidationReport: whether an error has been recorded
    namespace,      \* the globals of each module of the package: name -> table
    tunables,       \* the tunable values of the registry and the shot priors
    box,            \* TeamState.player_stats of each team, summed over its players
    era_cache,      \* era._ERA_CACHE: the era names that have a cached config
    player_fatigue  \* Player.fatigue by pid, in units of 1/220000 (0 fresh)

vars == <<cfg, pc, lineup, roles, tm, outcome_counts, shot_zones, orig_lineups,
          quarter, clock_sec, shot_clock_sec, total_possessions, team_fouls,
          player_fouls, fatigue, minutes_played_sec, on_court, targets, poss, hist,
          call, report, namespace, tunables, box, era_cache, player_fatigue>>

----------------------------------------------------------------------------
(* Bounds of the model *)

\* quarter length, in seconds, of the short games explored under the default
\* tables, and the number of possessions they are followed for
QuarterLenShort == 7
MaxPossessions == 2
\* the same for the games with a quarter long enough for every action
QuarterLenLong == 10
MaxPossessionsLong == 1
\* quarter length, in seconds, of the foul-only games
QuarterLenFoul == 25
\* quarter length, in seconds, of the foul-only games of two teams of one name
QuarterLenSame == 13
\* quarter length, in seconds, of the reset-only games
QuarterLenReset == 27

----------------------------------------------------------------------------
(* Rules: MVP_RULES of match_engine/era.py *)

Quarters == 4
ShotClock == 24
OrbReset == 14
FoulOut == 6
MaxSteps == 7
SubOutTh == 350
SubInTh == 700
StarterSec == 1920
RotationSec == 960
BenchSec == 480
TicksPerSec == 27
GarbageTicksPerSec == 25
\* ValidationConfig.mult_lo and mult_hi, the range of ROLE_FIT_STRENGTH, the
\* value 1.0 and the default role-fit strength 0.65, in hundredths
MultLo == 70
MultHi == 140
RoleFitLo == 0
RoleFitHi == 100
One == 100
DefaultRoleFit == 65

time_costs(a) ==
    CASE a = "possession_setup" -> 2
      [] a = "PnR" -> 7
      [] a = "DHO" -> 6
      [] a = "Drive" -> 5
      [] a = "PostUp" -> 7
      [] a = "HornsSet" -> 6
      [] a = "SpotUp" -> 4
      [] a = "Cut" -> 4
      [] a = "TransitionEarly" -> 4
      [] a = "Kickout" -> 2
      [] a = "ExtraPass" -> 2
      [] a = "Reset" -> 4
      [] OTHER -> 0

fatigue_loss_for_role(role) ==
    CASE role = "handler" -> 12
      [] role = "big" -> 9
      [] OTHER -> 10

----------------------------------------------------------------------------
(* Teams, players *)

Teams == {"A", "B"}
Home == "A"
Other(t) == IF t = "A" THEN "B" ELSE "A"

Player(id, pid, pos) == [id |-> id, pid |-> pid, pos |-> pos]

RosterA ==
    << Player("A1", "p1", "G"), Player("A2", "p2", "G"), Player("A3", "p3", "F"),
       Player("A4", "p4", "F"), Player("A5", "p5", "C") >>
RosterB ==
    << Player("B1", "q1", "G"), Player("B2", "q2", "G"), Player("B3", "q3", "F"),
       Player("B4", "q4", "F"), Player("B5", "q5", "C") >>
\* a roster whose first four pids are also pids of RosterA
RosterBShared ==
    << Player("B1", "p1", "G"), Player("B2", "p2", "G"), Player("B3", "p3", "F"),
       Player("B4", "p4", "F"), Player("B5", "q5", "C") >>
\* a twelfth-man style roster: a sixth player behind the five starters
RosterA6 == RosterA \o << Player("A6", "p6", "G") >>
\* a roster that lists the pid p1 twice
RosterADup ==
    << Player("A1", "p1", "G"), Player("A2", "p1", "G"), Player("A3", "p3", "F"),
       Player("A4", "p4", "F"), Player("A5", "p5", "C") >>
\* a short roster, accepted with a warning when validation is not strict
RosterB2 == << Player("B1", "q1", "G"), Player("B5", "q5", "C") >>

Pids == {"p1", "p2", "p3", "p4", "p5", "p6", "q1", "q2", "q3", "q4", "q5"}
Names == {"Home", "Away", "Same"}

Range(s) == {s[i] : i \in 1..Len(s)}
PidsOf(s) == {s[i].pid : i \in 1..Len(s)}
PidList(s) == [i \in 1..Len(s) |-> s[i].pid]

----------------------------------------------------------------------------
(* Closed vocabularies *)

Outcomes ==
    {"SHOT_RIM_LAYUP", "SHOT_RIM_DUNK", "SHOT_RIM_CONTACT", "SHOT_TOUCH_FLOATER",
     "SHOT_MID_CS", "SHOT_MID_PU", "SHOT_3_CS", "SHOT_3_OD", "SHOT_POST",
     "PASS_KICKOUT", "PASS_EXTRA", "PASS_SKIP", "PASS_SHORTROLL",
     "TO_HANDLE_LOSS", "TO_BAD_PASS", "TO_CHARGE", "TO_SHOTCLOCK",
     "FOUL_DRAW_RIM", "FOUL_DRAW_POST", "FOUL_DRAW_JUMPER", "FOUL_REACH_TRAP",
     "RESET_HUB", "RESET_RESREEN", "RESET_REDO_DHO", "RESET_POST_OUT"}

Zones == {"rim", "mid", "3"}
EndKinds == {"SCORE", "TURNOVER", "FOUL", "TO_SHOTCLOCK", "DRB", "CUTOFF"}
Eras == {"broken"} \cup {"default", "reset_hub", "foul", "scramble", "trap"}

is_shot(o) == o \in {"SHOT_RIM_LAYUP", "SHOT_RIM_DUNK", "SHOT_RIM_CONTACT",
                     "SHOT_TOUCH_FLOATER", "SHOT_MID_CS", "SHOT_MID_PU",
                     "SHOT_3_CS", "SHOT_3_OD", "SHOT_POST"}
is_pass(o) == o \in {"PASS_KICKOUT", "PASS_EXTRA", "PASS_SKIP", "PASS_SHORTROLL"}
is_to(o) == o \in {"TO_HANDLE_LOSS", "TO_BAD_PASS", "TO_CHARGE", "TO_SHOTCLOCK"}
is_foul(o) == o \in {"FOUL_DRAW_RIM", "FOUL_DRAW_POST", "FOUL_DRAW_JUMPER",
                     "FOUL_REACH_TRAP"}
is_reset(o) == o \in {"RESET_HUB", "RESET_RESREEN", "RESET_REDO_DHO", "RESET_POST_OUT"}

\* "" stands for None
shot_zone_from_outcome(o) ==
    IF o \in {"SHOT_RIM_LAYUP", "SHOT_RIM_DUNK", "SHOT_RIM_CONTACT", "SHOT_TOUCH_FLOATER"}
    THEN "rim"
    ELSE IF o \in {"SHOT_MID_CS", "SHOT_MID_PU"} THEN "mid"
    ELSE IF o \in {"SHOT_3_CS", "SHOT_3_OD"} THEN "3"
    ELSE ""

outcome_points(o) ==
    IF o \in {"SHOT_3_CS", "SHOT_3_OD"} THEN 3 ELSE IF is_shot(o) THEN 2 ELSE 0

----------------------------------------------------------------------------
(* Era tables.  Only the support of a weight table matters to the model: a   *)
(* key is listed when its weight is positive, so that weighted_choice can    *)
(* return it.  The era "default" is DEFAULT_ERA; "reset_hub" and "foul" are  *)
(* in-memory era records that override action_outcome_priors (and, for       *)
(* "foul", off_scheme_action_weights and the clamps of prob_model);          *)
(* "trap" overrides action_outcome_priors alone, and "scramble" overrides    *)
(* action_outcome_priors and off_scheme_action_weights.                      *)

ACTION_ALIASES(a) ==
    CASE a \in {"DragScreen", "DoubleDrag", "Rescreen", "SideAnglePnR", "SlipScreen",
                "SpainPnR", "ShortRollPlay"} -> "PnR"
      [] a \in {"ZoomDHO", "ReDHO_Handback", "Chicago"} -> "DHO"
      [] a = "Relocation" -> "SpotUp"
      [] a = "SkipPass" -> "ExtraPass"
      [] a = "Hammer" -> "Kickout"
      [] a \in {"PostEntry", "HighLow", "QuickPost"} -> "PostUp"
      [] a \in {"PostSplit", "OffBallScreen", "ScreenTheScreener_STS"} -> "Cut"
      [] a = "ElbowHub" -> "HornsSet"
      [] a = "SecondaryBreak" -> "TransitionEarly"
      [] OTHER -> a

get_action_base(a) == ACTION_ALIASES(a)

DefaultSchemeActions(scheme) ==
    CASE scheme = "Drive_Kick" ->
           {"Drive", "Kickout", "ExtraPass", "Relocation", "SpotUp", "Cut", "SkipPass",
            "Hammer", "PnR", "DHO"}
      [] scheme = "FiveOut" ->
           {"Drive", "SpotUp", "Kickout", "ExtraPass", "Relocation", "Cut", "DHO",
            "ZoomDHO", "PnR", "SlipScreen"}
      [] scheme = "Motion_SplitCut" ->
           {"ElbowHub", "OffBallScreen", "ScreenTheScreener_STS", "Cut", "PostSplit",
            "DHO", "Drive", "Kickout", "ExtraPass", "SpotUp", "PnR"}
      [] scheme = "DHO_Chicago" ->
           {"Chicago", "DHO", "ZoomDHO", "ReDHO_Handback", "Drive", "Kickout",
            "ExtraPass", "SpotUp", "PnR", "SlipScreen", "OffBallScreen"}
      [] scheme = "Post_InsideOut" ->
           {"PostEntry", "PostUp", "Kickout", "ExtraPass", "SpotUp", "Cut", "PostSplit",
            "HighLow", "Drive", "DHO"}
      [] scheme = "Horns_Elbow" ->
           {"HornsSet", "ElbowHub", "PnR", "DHO", "HighLow", "Drive", "Kickout",
            "ExtraPass", "SpotUp", "Cut", "SpainPnR"}
      [] scheme = "Transition_Early" ->
           {"TransitionEarly", "DragScreen", "DoubleDrag", "SecondaryBreak", "Drive",
            "Kickout", "SpotUp", "QuickPost"}
      [] OTHER ->  \* "Spread_HeavyPnR", also the fallback row
           {"PnR", "SideAnglePnR", "DoubleDrag", "Rescreen", "SlipScreen", "SpainPnR",
            "ShortRollPlay", "Drive", "Kickout", "ExtraPass", "SpotUp", "Cut"}

OFF_SCHEME_ACTION_WEIGHTS(era, scheme) ==
    IF era = "foul" THEN {"SpotUp"}
    ELSE IF era = "scramble" THEN {"Kickout"}
    ELSE DefaultSchemeActions(scheme)

DefaultPriors(base) ==
    CASE base = "PnR" ->
           {"PASS_SHORTROLL", "PASS_KICKOUT", "SHOT_3_OD", "SHOT_MID_PU", "SHOT_RIM_LAYUP",
            "SHOT_RIM_DUNK", "SHOT_3_CS", "FOUL_DRAW_RIM", "FOUL_DRAW_JUMPER",
            "TO_HANDLE_LOSS", "TO_BAD_PASS", "RESET_RESREEN"}
      [] base = "DHO" ->
           {"SHOT_3_OD", "SHOT_MID_PU", "SHOT_RIM_LAYUP", "PASS_KICKOUT", "PASS_EXTRA",
            "SHOT_3_CS", "FOUL_DRAW_JUMPER", "FOUL_DRAW_RIM", "TO_HANDLE_LOSS",
            "TO_BAD_PASS", "RESET_REDO_DHO"}
      [] base = "Drive" ->
           {"SHOT_RIM_LAYUP", "SHOT_RIM_DUNK", "SHOT_RIM_CONTACT", "SHOT_TOUCH_FLOATER",
            "PASS_KICKOUT", "PASS_EXTRA", "FOUL_DRAW_RIM", "TO_CHARGE", "TO_HANDLE_LOSS",
            "RESET_HUB"}
      [] base = "Kickout" ->
           {"SHOT_3_CS", "SHOT_MID_CS", "PASS_EXTRA", "PASS_SKIP", "FOUL_DRAW_JUMPER",
            "TO_BAD_PASS", "RESET_HUB"}
      [] base = "ExtraPass" ->
           {"SHOT_3_CS", "SHOT_MID_CS", "PASS_EXTRA", "PASS_SKIP", "FOUL_DRAW_JUMPER",
            "TO_BAD_PASS", "RESET_HUB"}
      [] base = "PostUp" ->
           {"SHOT_POST", "SHOT_RIM_CONTACT", "PASS_KICKOUT", "PASS_EXTRA", "PASS_SKIP",
            "FOUL_DRAW_POST", "TO_BAD_PASS", "TO_HANDLE_LOSS", "RESET_POST_OUT"}
      [] base = "HornsSet" ->
           {"PASS_KICKOUT", "SHOT_MID_CS", "SHOT_3_CS", "PASS_EXTRA", "FOUL_DRAW_JUMPER",
            "TO_BAD_PASS", "RESET_HUB"}
      [] base = "Cut" ->
           {"SHOT_RIM_LAYUP", "SHOT_RIM_DUNK", "SHOT_RIM_CONTACT", "FOUL_DRAW_RIM",
            "PASS_KICKOUT", "TO_BAD_PASS", "TO_HANDLE_LOSS", "RESET_HUB"}
      [] base = "TransitionEarly" ->
           {"SHOT_RIM_LAYUP", "SHOT_RIM_DUNK", "SHOT_3_CS", "FOUL_DRAW_RIM",
            "PASS_KICKOUT", "TO_HANDLE_LOSS", "TO_BAD_PASS", "RESET_HUB"}
      [] OTHER ->  \* "SpotUp", also the fallback row
           {"SHOT_3_CS", "SHOT_MID_CS", "FOUL_DRAW_JUMPER", "TO_BAD_PASS", "RESET_HUB"}

ACTION_OUTCOME_PRIORS(era, base) ==
    CASE era = "reset_hub" -> {"RESET_HUB"}
      [] era = "foul" -> {"FOUL_REACH_TRAP"}
      [] era = "trap" -> {"FOUL_REACH_TRAP"}
      [] era = "scramble" -> {"SHOT_RIM_LAYUP", "PASS_EXTRA", "RESET_HUB"}
      [] OTHER -> DefaultPriors(base)

\* The sides a coin rng.random() < p can land on.  p is clamped to
\* [prob_min, prob_max] (0.03 and 0.97 by default), so both sides are possible;
\* the "foul" era sets prob_min = prob_max = 0, so the coin never lands on TRUE.
ShotCoin(era) == IF era = "foul" THEN {FALSE} ELSE BOOLEAN
\* Free throws: p is clamped to [ft_min, ft_max] (0.40 and 0.95 by default); the
\* "foul" era sets ft_min = ft_max = 1, so every free throw is made.
FtMade(era, n) == IF era = "foul" THEN {n} ELSE 0..n

----------------------------------------------------------------------------
(* Lists *)

Max(a, b) == IF a >= b THEN a ELSE b
Min(a, b) == IF a <= b THEN a ELSE b
Abs(x) == IF x < 0 THEN -x ELSE x

\* number of occurrences of x in the list s
Count(s, x) == Cardinality({i \in 1..Len(s) : s[i] = x})

\* list.index(x): the first position of x in s, 0 when absent
IndexOf(s, x) ==
    IF \E i \in 1..Len(s) : s[i] = x
    THEN CHOOSE i \in 1..Len(s) : s[i] = x /\ \A j \in 1..(i - 1) : s[j] # x
    ELSE 0

\* list.remove(x): s without the first occurrence of x
RemoveFirst(s, x) ==
    LET i == IndexOf(s, x)
    IN IF i = 0 THEN s ELSE SubSeq(s, 1, i - 1) \o SubSeq(s, i + 1, Len(s))

\* s[:n]
Take(s, n) == SubSeq(s, 1, Min(n, Len(s)))

Sum2(f) == f["A"] + f["B"]

RECURSIVE SumOver(_, _)
SumOver(f, S) ==
    IF S = {} THEN 0
    ELSE LET x == CHOOSE y \in S : TRUE IN f[x] + SumOver(f, S \ {x})

----------------------------------------------------------------------------
(* TeamState helpers: match_engine/models.py *)

\* TeamState.find_player: position in the lineup of the first player with this
\* pid, 0 for None
find_player(l, pid) ==
    IF \E i \in 1..Len(l) : l[i].pid = pid
    THEN CHOOSE i \in 1..Len(l) : l[i].pid = pid /\ \A j \in 1..(i - 1) : l[j].pid # pid
    ELSE 0

\* the on-court slice of a lineup: simulate_game narrows team.lineup to the
\* on-court pids that find_player finds in it
RECURSIVE NarrowLineup(_, _)
NarrowLineup(l, oc) ==
    IF oc = << >> THEN << >>
    ELSE LET i == find_player(l, Head(oc))
         IN (IF i = 0 THEN << >> ELSE << l[i] >>) \o NarrowLineup(l, Tail(oc))

\* TeamState.get_role_player with a fallback rank key: the pids it may
\* return.  The player of the role when find_player finds him in the lineup,
\* otherwise the best of the lineup by a rating the model does not follow
get_role_player(l, r, role) ==
    IF r[role] # "" /\ find_player(l, r[role]) # 0
    THEN {r[role]}
    ELSE PidsOf(l)

ZeroTotals ==
    [pts |-> 0, fgm |-> 0, fga |-> 0, tpm |-> 0, tpa |-> 0, ftm |-> 0, fta |-> 0,
     tov |-> 0, orb |-> 0, drb |-> 0, possessions |-> 0]

\* the stats of a player box
BoxStats == {"pts", "fgm", "fga", "tpm", "tpa", "ftm", "fta", "tov", "orb", "drb"}

\* init_player_boxes: every stat of every player box is 0, and so is its sum
\* over the players
init_player_boxes == [k \in BoxStats |-> 0]

----------------------------------------------------------------------------
(* Validation: validate_and_sanitize_team of match_engine_mvp_plus_v08.py *)

\* load_era_config records an error for the era "broken": an era record, given
\* as a dict, one of whose table blocks is not a dict (the default block is
\* used in its place)
EraErrors(era) == era = "broken"

\* faulty variant of LineupErrors: a duplicate pid is not reported
LineupErrorsSizeOnly(l, strict) ==
    \/ Len(l) = 0
    \/ (Len(l) # 5 /\ strict)

\* the lineup checks that record an error
LineupErrors(l, strict) ==
    \/ Len(l) = 0
    \/ (Len(l) # 5 /\ strict)
    \/ Cardinality(PidsOf(l)) # Len(l)

\* the lineup after validation: without strict mode a lineup longer than 5 is
\* cut to its first 5 players
SanitizedLineup(l, strict) ==
    IF Len(l) = 0 \/ strict THEN l
    ELSE IF Len(l) > 5 THEN SubSeq(l, 1, 5) ELSE l

\* a role whose pid is not in the (sanitized) lineup is dropped
SanitizedRoles(r, l) ==
    IF Len(l) = 0 THEN r
    ELSE [k \in DOMAIN r |-> IF r[k] \in PidsOf(l) THEN r[k] ELSE ""]

\* _init_targets: minute target of every pid of the lineup, 0 for a pid without
\* an entry; a later slot overwrites an earlier one with the same pid
SlotTarget(idx) ==
    IF idx <= 5 THEN StarterSec ELSE IF idx <= 8 THEN RotationSec ELSE BenchSec

init_targets(l) ==
    [pid \in Pids |->
        IF pid \in PidsOf(l)
        THEN SlotTarget(CHOOSE i \in 1..Len(l) :
                            l[i].pid = pid /\ \A j \in (i + 1)..Len(l) : l[j].pid # pid)
        ELSE 0]

----------------------------------------------------------------------------
(* Freshness decay and minutes: match_engine/sim.py *)

\* "PnR" in tactics.offense_scheme
HasPnR(scheme) == scheme = "Spread_HeavyPnR"

\* the freshness lost by pid in one possession, in thousandths
FatigueLoss(pid, l, r, tac) ==
    LET byRole == IF r.ball_handler = pid THEN "handler"
                  ELSE IF r.secondary_handler = pid THEN "handler"
                  ELSE IF r.screener = pid \/ r.post = pid THEN "big"
                  ELSE "wing"
        i == find_player(l, pid)
        role == IF i # 0 /\ l[i].pos \in {"C", "F"} THEN "big" ELSE byRole
        heavy == tac.heavy_pnr \/ HasPnR(tac.offense_scheme)
    IN fatigue_loss_for_role(role)
         + (IF tac.transition_emphasis THEN 1 ELSE 0)
         + (IF heavy /\ role \in {"handler", "big"} THEN 1 ELSE 0)

\* _apply_fatigue_loss: one pass over the on-court list, in order
RECURSIVE apply_fatigue_loss(_, _, _, _, _)
apply_fatigue_loss(fat, oc, l, r, tac) ==
    IF oc = << >> THEN fat
    ELSE LET pid == Head(oc)
             f2 == [fat EXCEPT ![pid] = Max(0, Min(1000, @ - FatigueLoss(pid, l, r, tac)))]
         IN apply_fatigue_loss(f2, Tail(oc), l, r, tac)

\* _update_minutes over the offense's and then the defense's on-court list
update_minutes(mins, ocOff, ocDef, inc) ==
    [pid \in Pids |-> mins[pid] + inc * (Count(ocOff, pid) + Count(ocDef, pid))]

----------------------------------------------------------------------------
(* Rotation: _perform_rotation of match_engine/sim.py *)

\* sorted(...): stable insertion of x into a list sorted by key
RECURSIVE InsertByKey(_, _, _)
InsertByKey(x, s, key) ==
    IF s = << >> THEN << x >>
    ELSE IF key[Head(s)] <= key[x] THEN << Head(s) >> \o InsertByKey(x, Tail(s), key)
    ELSE << x >> \o s

RECURSIVE SortByKey(_, _)
SortByKey(s, key) ==
    IF s = << >> THEN << >>
    ELSE InsertByKey(s[Len(s)], SortByKey(SubSeq(s, 1, Len(s) - 1), key), key)

\* max(in_candidates, key = (target - minutes, freshness)): the first maximal one
BestIn(ins, tg, mins, fat) ==
    LET better(a, b) == \/ tg[a] - mins[a] > tg[b] - mins[b]
                        \/ (tg[a] - mins[a] = tg[b] - mins[b] /\ fat[a] > fat[b])
        i == CHOOSE k \in 1..Len(ins) :
                 /\ \A j \in 1..Len(ins) : ~better(ins[j], ins[k])
                 /\ \A j \in 1..(k - 1) : better(ins[k], ins[j])
    IN ins[i]

\* the swap loop: at most 2 swaps, each takes the best bench candidate
RECURSIVE SwapLoop(_, _, _, _, _, _, _)
SwapLoop(outs, oc, ins, swaps, tg, mins, fat) ==
    IF outs = << >> \/ swaps >= 2 \/ ins = << >> THEN oc
    ELSE LET pid_out == Head(outs)
             pid_in == BestIn(ins, tg, mins, fat)
             ins2 == RemoveFirst(ins, pid_in)
             i == IndexOf(oc, pid_out)
         IN IF i # 0
            THEN SwapLoop(Tail(outs), [oc EXCEPT ![i] = pid_in], ins2, swaps + 1,
                          tg, mins, fat)
            ELSE SwapLoop(Tail(outs), oc, ins2, swaps, tg, mins, fat)

\* the players of the lineup that may come in: not on court, not fouled out
Bench(l, oc, pf) ==
    SelectSeq(PidList(l), LAMBDA pid : pid \notin Range(oc) /\ pf[pid] < FoulOut)

\* the on-court list after _perform_rotation
perform_rotation(oc, l, tg, pf, fat, mins, is_garbage) ==
    LET bench == Bench(l, oc, pf)
        tired(pid) == fat[pid] < SubOutTh \/ pf[pid] >= FoulOut
        over_target(pid) == mins[pid] > tg[pid] + 120
        outs == SelectSeq(oc, LAMBDA pid :
                    \/ tired(pid) \/ over_target(pid)
                    \/ (is_garbage /\ tg[pid] >= tg[oc[1]]))
        ins == SelectSeq(bench, LAMBDA pid :
                    fat[pid] > SubInTh /\ mins[pid] <= tg[pid] + 240)
    IN Take(SwapLoop(SortByKey(outs, fat), oc, ins, 0, tg, mins, fat), 5)

----------------------------------------------------------------------------
(* Inputs of simulate_game *)

DefaultTactics(scheme) ==
    [offense_scheme |-> scheme, defense_scheme |-> "Drop",
     transition_emphasis |-> FALSE, heavy_pnr |-> FALSE]

RolesA == [ball_handler |-> "p1", secondary_handler |-> "p2", screener |-> "p5", post |-> "p5"]
RolesB == [ball_handler |-> "q1", secondary_handler |-> "q2", screener |-> "q5", post |-> "q5"]
RolesBShared ==
    [ball_handler |-> "p1", secondary_handler |-> "p2", screener |-> "q5", post |-> "q5"]

Setup(era, ql, cap, strict, nameA, nameB, la, lb, ra, rb, sa, sb) ==
    [cfg |-> [era |-> era, quarter_length |-> ql, max_possessions |-> cap,
              strict |-> strict, roster |-> [A |-> la, B |-> lb],
              name |-> [A |-> nameA, B |-> nameB],
              tactics |-> [A |-> DefaultTactics(sa), B |-> DefaultTactics(sb)]],
     lineup |-> [A |-> la, B |-> lb],
     roles |-> [A |-> ra, B |-> rb]]

NoPossession ==
    [off |-> "A", action |-> "", steps |-> 0, pass_chain |-> 0, start_clock |-> 0,
     is_garbage |-> FALSE, resets |-> 0, in_transition |-> FALSE]

NoHistory ==
    [misses |-> 0,
     ends |-> [t \in Teams |-> [k \in EndKinds |-> 0]],
     foul_out_at |-> [pid \in Pids |-> -1],
     left_at |-> [pid \in Pids |-> 0],
     stray |-> FALSE,
     tov_to |-> {}]

\* the packaged engine keeps its tuning tables as module globals.  A table is
\* "default" (the built-in table), "dict" (the table of the era record),
\* and a name a module never binds is "unbound".
Modules == {"profiles", "era", "builders", "resolve", "role_fit"}

\* the tables of match_engine.profiles, imported by era.py
ProfileTables ==
    {"SHOT_BASE", "PASS_BASE_SUCCESS", "ACTION_OUTCOME_PRIORS", "ACTION_ALIASES",
     "OFF_SCHEME_ACTION_WEIGHTS", "DEF_SCHEME_ACTION_WEIGHTS",
     "OFFENSE_SCHEME_MULT", "DEFENSE_SCHEME_MULT"}

\* the globals apply_era_config declares
EraGlobals ==
    ProfileTables \cup
    {"ERA_PROB_MODEL", "ERA_LOGISTIC_PARAMS", "ERA_VARIANCE_PARAMS", "ERA_ROLE_FIT"}

\* from .profiles import ACTION_ALIASES, DEF_SCHEME_ACTION_WEIGHTS, OFF_SCHEME_ACTION_WEIGHTS
BuildersImports ==
    {"ACTION_ALIASES", "DEF_SCHEME_ACTION_WEIGHTS", "OFF_SCHEME_ACTION_WEIGHTS"}

\* from .era import ERA_PROB_MODEL; from .profiles import PASS_BASE_SUCCESS, SHOT_BASE
ResolveImports == {"ERA_PROB_MODEL", "PASS_BASE_SUCCESS", "SHOT_BASE"}

\* from .era import ERA_ROLE_FIT
RoleFitImports == {"ERA_ROLE_FIT"}

\* the names a module binds when the package is imported
BoundIn(m) ==
    CASE m = "profiles" -> ProfileTables
      [] m = "era"      -> EraGlobals
      [] m = "builders" -> BuildersImports
      [] m = "resolve"  -> ResolveImports
      [] m = "role_fit" -> RoleFitImports

\* the namespaces once the package is imported: "from X import N" binds N in
\* the importing module to the table X.N holds at that moment
ImportTime ==
    [m \in Modules |->
        [n \in EraGlobals |-> IF n \in BoundIn(m) THEN "default" ELSE "unbound"]]

\* the keys of TUNABLE_REGISTRY
TUNABLE_REGISTRY ==
    {"SHOT_BASE_RIM", "SHOT_BASE_MID", "SHOT_BASE_3", "PASS_BASE_SUCCESS_MULT",
     "ORB_BASE", "TO_BASE", "FOUL_BASE"}

\* a SHOT_* entry of ACTION_OUTCOME_PRIORS, in units that keep the scalings
\* of the model whole
ShotPriorAtImport == 400

\* the tunables once the package is imported: every registry value is 1.0
\* (hundredths), no snapshot has been taken
TunablesAtImport ==
    [value      |-> [k \in TUNABLE_REGISTRY |-> One],
     shot_prior |-> ShotPriorAtImport,
     snap       |-> [k \in TUNABLE_REGISTRY |-> 0],
     at_snap    |-> [value |-> [k \in TUNABLE_REGISTRY |-> 0], shot_prior |-> 0],
     updates    |-> 0]

\* no helper is called on its own
NoCall == [fn |-> ""]

\* Player.fatigue runs from 0 (fresh) to 100 (exhausted); the unit of the model
\* is 1/220000, in which cost * (1.12 - ENDURANCE / 220) is a whole number
FatigueUnit == 220000
FatigueMax == 100 * FatigueUnit

\* Player.derived["ENDURANCE"] after sanitize_player_derived, within
\* [derived_lo, derived_hi] = [0, 100]; a missing key reads as DERIVED_DEFAULT
DERIVED_DEFAULT == 50
ENDURANCE(pid) ==
    CASE pid \in {"p1", "q1"} -> 0
      [] pid \in {"p2", "q2"} -> 100
      [] OTHER -> DERIVED_DEFAULT

\* Player.fatigue when simulate_game is called: 0 for a new Player object;
\* p1, q1 and q2 have a game behind them, the engine does not reset the
\* value between games
FatigueAtTipOff ==
    [pid \in Pids |-> CASE pid \in {"p1", "q1"} -> FatigueMax - 100000
                        [] pid = "q2" -> FatigueMax \div 2
                        [] OTHER -> 0]

\* faulty variant of add_fatigue: the sum is not clamped
add_fatigue_unclamped(f, cost, endu) == f + cost * (2464 - 10 * endu)

\* Player.add_fatigue(cost), cost in hundredths:
\* gain = cost * (1.12 - endu / 220.0); fatigue = clamp(fatigue + gain, 0, 100)
add_fatigue(f, cost, endu) ==
    Max(0, Min(FatigueMax, f + cost * (2464 - 10 * endu)))

\* report = ValidationReport()
NoReport == [errors |-> FALSE]

\* the state before simulate_game is called with one of the setups of S
InitWith(S) ==
    \E s \in S :
        /\ call = NoCall
        /\ report = NoReport
        /\ namespace = ImportTime
        /\ tunables = TunablesAtImport
        /\ box = [t \in Teams |-> init_player_boxes]
        /\ era_cache = {}
        /\ player_fatigue = FatigueAtTipOff
        /\ cfg = s.cfg
        /\ lineup = s.lineup
        /\ roles = s.roles
        /\ pc = "tip"
        /\ tm = [t \in Teams |-> ZeroTotals]
        /\ outcome_counts = [t \in Teams |-> [o \in Outcomes |-> 0]]
        /\ shot_zones = [t \in Teams |-> [z \in Zones |-> 0]]
        /\ orig_lineups = [n \in Names |-> << >>]
        /\ quarter = 0
        /\ clock_sec = 0
        /\ shot_clock_sec = 0
        /\ total_possessions = 0
        /\ team_fouls = [n \in Names |-> 0]
        /\ player_fouls = [pid \in Pids |-> 0]
        /\ fatigue = [pid \in Pids |-> 1000]
        /\ minutes_played_sec = [pid \in Pids |-> 0]
        /\ on_court = [t \in Teams |-> << >>]
        /\ targets = [t \in Teams |-> [pid \in Pids |-> 0]]
        /\ poss = NoPossession
        /\ hist = NoHistory

----------------------------------------------------------------------------
(* simulate_game, up to the first quarter: validation and GameState *)

\* on_court_home / on_court_away at tip-off: the pids of lineup[:5]
InitialOnCourt(l) == PidList(Take(l, 5))

\* orig_lineups = {teamA.name: list(teamA.lineup), teamB.name: list(teamB.lineup)}
SavedLineups(name, la, lb) ==
    [n \in Names |-> IF n = name["B"] THEN lb ELSE IF n = name["A"] THEN la ELSE << >>]

\* the start of a quarter resets the team fouls of both names
QuarterFouls(tf) ==
    [n \in Names |-> IF n \in {cfg.name["A"], cfg.name["B"]} THEN 0 ELSE tf[n]]

TipOff ==
    /\ pc = "tip"
    /\ LET la == SanitizedLineup(lineup["A"], cfg.strict)
           lb == SanitizedLineup(lineup["B"], cfg.strict)
           errs == \/ EraErrors(cfg.era)
                   \/ LineupErrors(lineup["A"], cfg.strict)
                   \/ LineupErrors(lineup["B"], cfg.strict)
       IN /\ report' = [errors |-> errs]
          /\ era_cache' = era_cache \cup {cfg.era}
          /\ lineup' = [A |-> la, B |-> lb]
          /\ roles' = [A |-> SanitizedRoles(roles["A"], la),
                       B |-> SanitizedRoles(roles["B"], lb)]
          /\ IF cfg.strict /\ errs
             THEN /\ pc' = "rejected"
                  /\ UNCHANGED <<orig_lineups, quarter, clock_sec, on_court, targets,
                                 box>>
             ELSE /\ pc' = "game"
                  /\ box' = [t \in Teams |-> init_player_boxes]
                  /\ orig_lineups' = SavedLineups(cfg.name, la, lb)
                  /\ quarter' = 1
                  /\ clock_sec' = cfg.quarter_length * TicksPerSec
                  /\ on_court' = [A |-> InitialOnCourt(la), B |-> InitialOnCourt(lb)]
                  /\ targets' = [A |-> init_targets(la), B |-> init_targets(lb)]
    /\ UNCHANGED <<player_fatigue, tunables, namespace, call, cfg, tm, outcome_counts, shot_zones, shot_clock_sec, total_possessions,
                   team_fouls, player_fouls, fatigue, minutes_played_sec, poss, hist>>

----------------------------------------------------------------------------
(* Clocks *)

TickRate(garbage) == IF garbage THEN GarbageTicksPerSec ELSE TicksPerSec

\* apply_time_cost: the shot clock may go negative, the game clock stops at 0
ShotClockAfter(sc, cost, garbage) == sc - cost * TickRate(garbage)

\* faulty variant of ClockAfter: the game clock is not stopped at 0
ClockAfterUnfloored(ck, cost, garbage) == ck - cost * TickRate(garbage)

ClockAfter(ck, cost, garbage) == Max(ck - cost * TickRate(garbage), 0)

\* faulty variant of Offense: the home team is always on offense
OffenseHomeOnly(tp) == "A"

\* offense, defense = (teamA, teamB) if total_possessions % 2 == 0 else (teamB, teamA)
Offense(tp) == IF tp % 2 = 0 THEN "A" ELSE "B"

IsGarbage ==
    /\ quarter = 4
    /\ clock_sec <= 360 * TicksPerSec
    /\ Abs(tm["A"].pts - tm["B"].pts) >= 20

\* the lineups as restored from orig_lineups by team name
RestoredLineups == [t \in Teams |-> orig_lineups[cfg.name[t]]]

\* end of the while loop of a quarter: next quarter, or the game is over
EndQuarter(tf) ==
    IF quarter < Quarters
    THEN /\ quarter' = quarter + 1
         /\ clock_sec' = cfg.quarter_length * TicksPerSec
         /\ team_fouls' = QuarterFouls(tf)
         /\ pc' = "game"
    ELSE /\ quarter' = quarter
         /\ clock_sec' = 0
         /\ team_fouls' = tf
         /\ pc' = "done"

----------------------------------------------------------------------------
(* simulate_game: the head of one iteration of the possession loop, up to
   the first step of simulate_possession *)

StartPossession ==
    /\ pc = "game"
    /\ total_possessions < cfg.max_possessions
    /\ LET off == Offense(total_possessions)
           def == Other(off)
           lo == NarrowLineup(lineup[off], on_court[off])
           ld == NarrowLineup(lineup[def], on_court[def])
           narrowed == [t \in Teams |-> IF t = off THEN lo ELSE ld]
           garbage == IsGarbage
           setup == time_costs("possession_setup")
           sc == IF setup > 0 THEN ShotClockAfter(ShotClock * TicksPerSec, setup, garbage)
                 ELSE ShotClock * TicksPerSec
           ck == IF setup > 0 THEN ClockAfter(clock_sec, setup, garbage) ELSE clock_sec
       IN /\ shot_clock_sec' = sc
          /\ IF setup > 0 /\ sc <= 0
             THEN \* the setup alone used up the shot clock
                  /\ tm' = [tm EXCEPT ![off].tov = @ + 1]
                  /\ UNCHANGED poss
                  /\ IF lo = << >>
                     THEN /\ pc' = "crashed"
                          /\ lineup' = narrowed
                          /\ clock_sec' = ck
                          /\ UNCHANGED <<outcome_counts, total_possessions, quarter,
                                         team_fouls, box, hist>>
                     ELSE /\ box' = [box EXCEPT ![off].tov = @ + 1]
                          /\ hist' = [hist EXCEPT
                                        !.stray = @ \/ ~(PidsOf(lo) \subseteq
                                                          Range(on_court[off])),
                                        !.tov_to = get_role_player(lo, roles[off],
                                                                   "ball_handler")]
                          /\ outcome_counts' =
                                [outcome_counts EXCEPT ![off]["TO_SHOTCLOCK"] = @ + 1]
                          /\ lineup' = RestoredLineups
                          /\ total_possessions' = total_possessions + 1
                          /\ IF ck <= 0
                             THEN EndQuarter(team_fouls)
                             ELSE /\ pc' = "game"
                                  /\ clock_sec' = ck
                                  /\ UNCHANGED <<quarter, team_fouls>>
             ELSE IF setup > 0 /\ ck <= 0
             THEN \* the quarter ran out during the setup: no possession is played
                  /\ lineup' = RestoredLineups
                  /\ EndQuarter(team_fouls)
                  /\ UNCHANGED <<tm, outcome_counts, total_possessions, poss, hist,
                                 box>>
             ELSE \* simulate_possession starts
                  /\ lineup' = narrowed
                  /\ clock_sec' = ck
                  /\ tm' = [tm EXCEPT ![off].possessions = @ + 1]
                  /\ \E a \in OFF_SCHEME_ACTION_WEIGHTS(cfg.era,
                                                       cfg.tactics[off].offense_scheme) :
                         poss' = [off |-> off, action |-> a, steps |-> 0,
                                  pass_chain |-> 0, start_clock |-> clock_sec,
                                  is_garbage |-> garbage, resets |-> 0,
                                  in_transition |->
                                      get_action_base(a) = "TransitionEarly"]
                  /\ pc' = "step"
                  /\ UNCHANGED <<outcome_counts, total_possessions, quarter, team_fouls,
                                 hist, box>>
    /\ UNCHANGED <<player_fatigue, era_cache, tunables, namespace, call, report, cfg, roles, shot_zones, orig_lineups, player_fouls, fatigue,
                   minutes_played_sec, on_court, targets>>

----------------------------------------------------------------------------
(* One iteration of the while loop of simulate_possession.  The iteration is
   computed on a record of the values it may change:
     kind        "open" while the iteration runs, then "return", "continue"
                 or "crash" (an uncaught exception)
     end         how the possession ended, when kind = "return"
     tm, oc, sz  team totals, outcome_counts, shot_zones
     sc, ck      shot clock and game clock
     pf, tf, fat player fouls, team fouls, freshness
     action, pass_chain, resets, misses, foul_out_at *)
(* hist records, for the properties: the MISS resolutions, how each
   possession ended, the possession in which a player reached the foul-out
   limit and the quarter in which a rotation then took him off the court. *)

Off == poss.off
Def == Other(poss.off)

\* faulty variant of count_outcome: the outcome is not counted
count_outcome_skipped(oc, t, o) == oc

\* offense.outcome_counts[outcome] = offense.outcome_counts.get(outcome, 0) + 1
count_outcome(oc, t, o) == [oc EXCEPT ![t][o] = @ + 1]

\* faulty variant of resolve_free_throws: a made free throw is worth 2 points
resolve_free_throws_double(x, n, k) ==
    [x EXCEPT !.fta = @ + n, !.ftm = @ + k, !.pts = @ + 2 * k]

\* resolve_free_throws on the totals x of the shooting team: n attempts, k made
resolve_free_throws(x, n, k) ==
    [x EXCEPT !.fta = @ + n, !.ftm = @ + k, !.pts = @ + k]

StepStart(sc, ck) ==
    [kind |-> "open", end |-> "", tm |-> tm, oc |-> outcome_counts,
     sz |-> shot_zones, sc |-> sc, ck |-> ck, pf |-> player_fouls, tf |-> team_fouls,
     fat |-> fatigue, action |-> poss.action, pass_chain |-> poss.pass_chain,
     resets |-> poss.resets, misses |-> hist.misses, foul_out_at |-> hist.foul_out_at,
     box |-> box, stray |-> hist.stray, tov_to |-> hist.tov_to,
     pfat |-> player_fatigue]

\* faulty variant of add_player_stat: the stat is not entered in the player's box
add_player_stat_dropped(s, t, key, inc) == s

\* team.add_player_stat(p.pid, key, inc) for a player p taken from the lineup
\* of team t: the sum of the boxes grows by inc; stray records that the
\* lineup holds a player who is not on court for t
add_player_stat(s, t, key, inc) ==
    [s EXCEPT !.box[t][key] = @ + inc,
              !.stray = @ \/ ~(PidsOf(lineup[t]) \subseteq Range(on_court[t]))]

\* faulty variant of commit_shot_clock_turnover: the turnover is not charged
commit_without_turnover(s) ==
    [s EXCEPT !.kind = "return", !.end = "TO_SHOTCLOCK",
              !.oc = count_outcome(@, Off, "TO_SHOTCLOCK")]

\* commit_shot_clock_turnover(offense), followed by return
commit_shot_clock_turnover(s) ==
    IF lineup[Off] = << >>
    THEN [s EXCEPT !.kind = "crash", !.tm[Off].tov = @ + 1]
    ELSE [add_player_stat(s, Off, "tov", 1)
            EXCEPT !.kind = "return", !.end = "TO_SHOTCLOCK",
                   !.tm[Off].tov = @ + 1, !.oc = count_outcome(@, Off, "TO_SHOTCLOCK"),
                   !.tov_to = get_role_player(lineup[Off], roles[Off], "ball_handler")]

\* apply_time_cost and the two clock checks that follow every charge; the
\* result is "open" when neither clock has run out
Charged(s, cost) ==
    IF cost > 0
    THEN LET s1 == [s EXCEPT !.sc = ShotClockAfter(s.sc, cost, poss.is_garbage),
                             !.ck = ClockAfter(s.ck, cost, poss.is_garbage)]
         IN IF s1.sc <= 0 THEN commit_shot_clock_turnover(s1)
            ELSE IF s1.ck <= 0 THEN [s1 EXCEPT !.kind = "return", !.end = "CUTOFF"]
            ELSE [s1 EXCEPT !.kind = "open"]
    ELSE [s EXCEPT !.kind = "open"]

\* faulty variant of Rebound: the defensive rebound is not credited
ReboundUncredited(s) ==
    {[s EXCEPT !.kind = "continue", !.tm[Off].orb = @ + 1,
               !.sc = OrbReset * TicksPerSec, !.action = a, !.pass_chain = 0]
        : a \in {"Kickout", "Drive"}}
    \cup {[s EXCEPT !.kind = "return", !.end = "DRB"]}

\* term == "MISS": offensive rebound and a new action, or defensive rebound
Rebound(s) ==
    {[add_player_stat(s, Off, "orb", 1)
        EXCEPT !.kind = "continue", !.tm[Off].orb = @ + 1,
               !.sc = OrbReset * TicksPerSec, !.action = a, !.pass_chain = 0]
        : a \in {"Kickout", "Drive"}}
    \cup {[add_player_stat(s, Def, "drb", 1)
             EXCEPT !.kind = "return", !.end = "DRB", !.tm[Def].drb = @ + 1]}

\* term == "RESET": the reset is charged and a new action is drawn
ResetPath(s) ==
    LET s1 == Charged([s EXCEPT !.resets = @ + 1], time_costs("Reset"))
    IN IF s1.kind # "open" THEN {s1}
       ELSE {[s1 EXCEPT !.kind = "continue", !.action = a, !.pass_chain = 0]
               : a \in OFF_SCHEME_ACTION_WEIGHTS(cfg.era,
                                                 cfg.tactics[Off].offense_scheme)}

\* term == "CONTINUE": the pass is charged and steers the next action
PassCost(o) ==
    IF o \in {"PASS_KICKOUT", "PASS_SKIP"} THEN time_costs("Kickout")
    ELSE IF o = "PASS_EXTRA" THEN time_costs("ExtraPass")
    ELSE 0

ContinuePath(s, o) ==
    LET chain == s.pass_chain + 1
        steer == IF o \in {"PASS_KICKOUT", "PASS_SKIP", "PASS_EXTRA"}
                 THEN {"SpotUp", "ExtraPass"}
                 ELSE {"Drive", "Kickout"}
        s1 == Charged(s, PassCost(o))
    IN IF s1.kind # "open" THEN {s1}
       ELSE {[s1 EXCEPT !.kind = "continue", !.pass_chain = chain,
                        !.action = IF chain >= 3 THEN "SpotUp" ELSE a]
               : a \in steer}

\* resolve_outcome, branch is_shot
ResolveShot(s, o) ==
    LET pts == outcome_points(o)
        zone == shot_zone_from_outcome(o)
        three(x, key) == IF pts = 3 THEN add_player_stat(x, Off, key, 1) ELSE x
        s1 == [three(add_player_stat(s, Off, "fga", 1), "tpa")
                 EXCEPT !.tm[Off].fga = @ + 1,
                        !.tm[Off].tpa = IF pts = 3 THEN @ + 1 ELSE @,
                        !.sz[Off] = IF zone # "" THEN [@ EXCEPT ![zone] = @ + 1] ELSE @]
        made == [add_player_stat(three(add_player_stat(s1, Off, "fgm", 1), "tpm"),
                                 Off, "pts", pts)
                   EXCEPT !.kind = "return", !.end = "SCORE",
                           !.tm[Off].fgm = @ + 1,
                           !.tm[Off].tpm = IF pts = 3 THEN @ + 1 ELSE @,
                           !.tm[Off].pts = @ + pts]
    IN UNION {IF m THEN {made} ELSE Rebound([s1 EXCEPT !.misses = @ + 1])
                : m \in ShotCoin(cfg.era)}

\* resolve_outcome, branch is_foul
ResolveFoul(s, o) ==
    LET def_on_court == IF on_court[Def] # << >> THEN on_court[Def]
                        ELSE PidList(lineup[Def])
        pts == IF o = "FOUL_DRAW_JUMPER" THEN 3 ELSE 2
        called(f) ==
            [s EXCEPT !.pf[f] = @ + 1, !.tf[cfg.name[Def]] = @ + 1]
        three(x, key) == IF pts = 3 THEN add_player_stat(x, Off, key, 1) ELSE x
        boxed(x) == add_player_stat(
                        three(add_player_stat(
                                  three(add_player_stat(x, Off, "fga", 1), "tpa"),
                                  Off, "fgm", 1), "tpm"),
                        Off, "pts", pts)
        shot(s1, and_one) ==
            IF and_one
            THEN [boxed(s1)
                    EXCEPT !.tm[Off].fga = @ + 1, !.tm[Off].fgm = @ + 1,
                            !.tm[Off].tpa = IF pts = 3 THEN @ + 1 ELSE @,
                            !.tm[Off].tpm = IF pts = 3 THEN @ + 1 ELSE @,
                            !.tm[Off].pts = @ + pts]
            ELSE s1
        nfts(and_one) == (IF o = "FOUL_DRAW_JUMPER" THEN 3 ELSE 2)
                         + (IF and_one THEN 1 ELSE 0)
        free_throws(s1, n, k) ==
            [add_player_stat(add_player_stat(add_player_stat(s1, Off, "fta", n),
                                             Off, "ftm", k), Off, "pts", k)
               EXCEPT !.tm[Off] = resolve_free_throws(@, n, k)]
        foul_out(s1, f) ==
            IF s1.pf[f] >= FoulOut
            THEN [s1 EXCEPT !.fat[f] = 0,
                            !.foul_out_at[f] = IF @ = -1 THEN total_possessions ELSE @]
            ELSE s1
    IN UNION {
         {[foul_out(free_throws(shot(called(f), m), nfts(m), k), f)
              EXCEPT !.kind = "return", !.end = "FOUL"]
             : k \in FtMade(cfg.era, nfts(m))}
         : <<f, m>> \in Range(def_on_court) \X ShotCoin(cfg.era)}

\* resolve_outcome: base_cost_off, base_cost_def and p.add_fatigue for every
\* player of the two lineups
fatigue_cost(s) ==
    LET base_cost_off == IF poss.in_transition THEN 58 ELSE 42
        base_cost_def == IF poss.in_transition THEN 54 ELSE 40
    IN [s EXCEPT !.pfat =
          [pid \in Pids |->
              IF pid \in PidsOf(lineup[Off])
              THEN add_fatigue(@[pid], base_cost_off, ENDURANCE(pid))
              ELSE IF pid \in PidsOf(lineup[Def])
              THEN add_fatigue(@[pid], base_cost_def, ENDURANCE(pid))
              ELSE @[pid]]]

\* faulty variant of resolve_outcome: a failed pass is booked as a turnover
resolve_outcome_pass_turnover(s, o) ==
    LET s1 == fatigue_cost([s EXCEPT !.oc = count_outcome(@, Off, o)])
    IN IF is_shot(o) THEN ResolveShot(s1, o)
       ELSE IF is_pass(o)
            THEN UNION {IF ok THEN ContinuePath(s1, o)
                        ELSE ResetPath([s1 EXCEPT !.tm[Off].tov = @ + 1])
                          : ok \in ShotCoin(cfg.era)}
       ELSE IF is_to(o)
            THEN {[add_player_stat(s1, Off, "tov", 1)
                     EXCEPT !.kind = "return", !.end = "TURNOVER",
                            !.tm[Off].tov = @ + 1]}
       ELSE IF is_foul(o) THEN ResolveFoul(s1, o)
       ELSE ResetPath(s1)

resolve_outcome(s, o) ==
    LET s0 == [s EXCEPT !.oc = count_outcome(@, Off, o)]
        s1 == fatigue_cost(s0)
    IN IF lineup[Off] = << >> \/ lineup[Def] = << >>
       THEN {[s0 EXCEPT !.kind = "crash"]}
       ELSE IF is_shot(o) THEN ResolveShot(s1, o)
       ELSE IF is_pass(o)
            THEN UNION {IF ok THEN ContinuePath(s1, o) ELSE ResetPath(s1)
                          : ok \in ShotCoin(cfg.era)}
       ELSE IF is_to(o)
            THEN {[add_player_stat(s1, Off, "tov", 1)
                     EXCEPT !.kind = "return", !.end = "TURNOVER",
                            !.tm[Off].tov = @ + 1]}
       ELSE IF is_foul(o) THEN ResolveFoul(s1, o)
       ELSE ResetPath(s1)

\* the results of one iteration, before the loop condition is tested again
StepResults ==
    LET base == get_action_base(poss.action)
        s1 == Charged(StepStart(shot_clock_sec, clock_sec), time_costs(base))
    IN IF s1.kind # "open" THEN {s1}
       ELSE UNION {resolve_outcome(s1, o)
                     : o \in ACTION_OUTCOME_PRIORS(cfg.era, base)}

\* faulty variant of LoopExit: the loop is left at max_steps and nothing is
\* booked
LoopExitUnbooked(r) ==
    IF r.kind = "continue" /\ poss.steps + 1 >= MaxSteps
    THEN [r EXCEPT !.kind = "return", !.end = "TO_SHOTCLOCK"]
    ELSE r

\* `continue' with steps = max_steps leaves the loop: shot-clock turnover
LoopExit(r) ==
    IF r.kind = "continue" /\ poss.steps + 1 >= MaxSteps
    THEN commit_shot_clock_turnover(r)
    ELSE r

Step ==
    /\ pc = "step"
    /\ \E r0 \in StepResults :
        LET r == LoopExit(r0)
        IN /\ tm' = r.tm
           /\ outcome_counts' = r.oc
           /\ shot_zones' = r.sz
           /\ shot_clock_sec' = r.sc
           /\ clock_sec' = r.ck
           /\ player_fouls' = r.pf
           /\ team_fouls' = r.tf
           /\ fatigue' = r.fat
           /\ poss' = [poss EXCEPT !.steps = @ + 1, !.action = r.action,
                                   !.pass_chain = r.pass_chain, !.resets = r.resets]
           /\ box' = r.box
           /\ player_fatigue' = r.pfat
           /\ hist' = [misses |-> r.misses,
                       foul_out_at |-> r.foul_out_at,
                       stray |-> r.stray,
                       tov_to |-> r.tov_to,
                       left_at |-> hist.left_at,
                       ends |-> IF r.kind = "return"
                                THEN [hist.ends EXCEPT ![Off][r.end] = @ + 1]
                                ELSE hist.ends]
           /\ pc' = CASE r.kind = "return" -> "after"
                      [] r.kind = "continue" -> "step"
                      [] OTHER -> "crashed"
    /\ UNCHANGED <<era_cache, tunables, namespace, call, report, cfg, lineup, roles, orig_lineups, quarter, total_possessions,
                   minutes_played_sec, on_court, targets>>

----------------------------------------------------------------------------
(* simulate_game: the tail of one iteration of the possession loop *)

EndPossession ==
    /\ pc = "after"
    /\ LET l1 == RestoredLineups
           elapsed == Max(poss.start_clock - clock_sec, 0)
           inc == elapsed \div TicksPerSec
           mins1 == update_minutes(minutes_played_sec, on_court[Off], on_court[Def], inc)
           fat1 == apply_fatigue_loss(fatigue, on_court[Off], l1[Off], roles[Off],
                                      cfg.tactics[Off])
           fat2 == apply_fatigue_loss(fat1, on_court[Def], l1[Def], roles[Def],
                                      cfg.tactics[Def])
           rot(t) == perform_rotation(on_court[t], l1[t], targets[t], player_fouls,
                                      fat2, mins1, poss.is_garbage)
       IN /\ lineup' = l1
          /\ minutes_played_sec' = mins1
          /\ fatigue' = fat2
          /\ on_court' = [t \in Teams |-> rot(t)]
          /\ hist' = [hist EXCEPT !.left_at =
                          [pid \in Pids |->
                              IF /\ @[pid] = 0
                                 /\ hist.foul_out_at[pid] >= 0
                                 /\ \A t \in Teams : pid \notin Range(rot(t))
                              THEN quarter ELSE @[pid]]]
          /\ total_possessions' = total_possessions + 1
          /\ IF clock_sec <= 0
             THEN EndQuarter(team_fouls)
             ELSE /\ pc' = "game"
                  /\ UNCHANGED <<quarter, clock_sec, team_fouls>>
    /\ UNCHANGED <<player_fatigue, era_cache, tunables, namespace, call, report, cfg, roles, tm, outcome_counts, shot_zones, orig_lineups,
                   shot_clock_sec, player_fouls, targets, poss, box>>

Next == TipOff \/ StartPossession \/ Step \/ EndPossession

----------------------------------------------------------------------------
(* Specifications *)

\* a game of quarters of ql seconds has fewer than Uncapped(ql) possessions
Uncapped(ql) == Quarters * ql

\* two valid five-player teams under the default era: short quarters, and
\* the game is followed for its first MaxPossessions possessions, or a longer
\* quarter followed for its first MaxPossessionsLong ones
SetupsDefault ==
    {Setup("default", QuarterLenShort, MaxPossessions, TRUE, "Home", "Away",
           RosterA, RosterB, RolesA, RolesB, "Spread_HeavyPnR", "Post_InsideOut"),
     Setup("default", QuarterLenLong, MaxPossessionsLong, TRUE, "Home", "Away",
           RosterA, RosterB, RolesA, RolesB, "Post_InsideOut", "Spread_HeavyPnR")}

Init == InitWith(SetupsDefault)
Spec == Init /\ [][Next]_vars

\* every sampled outcome is RESET_HUB
SetupsReset ==
    {Setup("reset_hub", QuarterLenReset, Uncapped(QuarterLenReset), TRUE, "Home", "Away",
           RosterA, RosterB, RolesA, RolesB, "Spread_HeavyPnR", "Post_InsideOut")}

InitReset == InitWith(SetupsReset)
SpecReset == InitReset /\ [][Next]_vars

\* every sampled outcome is a foul; a six-player roster against a two-player
\* roster, accepted without strict validation
SetupsFoul ==
    {Setup("foul", QuarterLenFoul, Uncapped(QuarterLenFoul), FALSE, "Home", "Away",
           RosterA6, RosterB2, RolesA, RolesB, "Spread_HeavyPnR", "Post_InsideOut")}

InitFoul == InitWith(SetupsFoul)
SpecFoul == InitFoul /\ [][Next]_vars

\* every sampled outcome is a foul; two five-player teams that carry the same
\* name and share four player ids
SetupsSame ==
    {Setup("foul", QuarterLenSame, Uncapped(QuarterLenSame), TRUE, "Same", "Same",
           RosterA, RosterBShared, RolesA, RolesBShared, "Spread_HeavyPnR",
           "Post_InsideOut")}

InitSame == InitWith(SetupsSame)
SpecSame == InitSame /\ [][Next]_vars

\* strict validation: one pair of valid teams, whose game is played, and every
\* pairing in which the era record, the home lineup or the away lineup is
\* faulty
SetupsStrict ==
    {Setup("foul", QuarterLenSame, Uncapped(QuarterLenSame), TRUE, "Home", "Away",
           RosterA, RosterB, RolesA, RolesB, "Spread_HeavyPnR", "Post_InsideOut")}
    \cup
    {Setup(era, QuarterLenSame, Uncapped(QuarterLenSame), TRUE, "Home", "Away",
           la, lb, RolesA, RolesB, "Spread_HeavyPnR", "Post_InsideOut") :
       <<era, la, lb>> \in
         {x \in {"foul", "broken"} \X {RosterA, << >>, RosterA6, RosterADup}
                                   \X {RosterB, << >>, RosterB2} :
            x[1] = "broken" \/ x[2] # RosterA \/ x[3] # RosterB}}

InitStrict == InitWith(SetupsStrict)
SpecStrict == InitStrict /\ [][Next]_vars

\* validation that is not strict: every pairing of a sound, empty, six-player
\* or duplicate-pid home lineup with a sound, empty or two-player away lineup
SetupsLenient ==
    {Setup("foul", QuarterLenSame, Uncapped(QuarterLenSame), FALSE, "Home", "Away",
           la, lb, RolesA, RolesB, "Spread_HeavyPnR", "Post_InsideOut") :
       <<la, lb>> \in {RosterA, << >>, RosterA6, RosterADup} \X {RosterB, << >>, RosterB2}}

InitLenient == InitWith(SetupsLenient)
SpecLenient == InitLenient /\ [][Next]_vars

\* the role assignments of the home team that the games of SetupsRoles differ
\* in: the guards p1 and p2 as the two handlers, p2 alone, or no role at all
RoleMapsA ==
    {RolesA,
     [ball_handler |-> "p2", secondary_handler |-> "", screener |-> "p5", post |-> "p5"],
     [ball_handler |-> "", secondary_handler |-> "", screener |-> "", post |-> ""]}

\* tac with context["ROLE_FIT_STRENGTH"] = 0
RoleFitOff(tac) == tac @@ [role_fit_strength |-> 0]

\* _get_role_fit_strength: the context value, or the default strength of the era
get_role_fit_strength(tac) ==
    IF "role_fit_strength" \in DOMAIN tac THEN tac.role_fit_strength ELSE DefaultRoleFit

\* games that differ only in the role assignment of the home team, both teams
\* with ROLE_FIT_STRENGTH = 0
SetupsRoles ==
    {[cfg |-> [s.cfg EXCEPT !.tactics = [t \in Teams |-> RoleFitOff(@[t])]],
      lineup |-> s.lineup,
      roles |-> [s.roles EXCEPT !["A"] = ra]] :
        s \in {Setup("foul", QuarterLenSame, Uncapped(QuarterLenSame), TRUE, "Home", "Away",
                     RosterA, RosterB, RolesA, RolesB, "Spread_HeavyPnR",
                     "Post_InsideOut")},
        ra \in RoleMapsA}

InitRoles == InitWith(SetupsRoles)
SpecRoles == InitRoles /\ [][Next]_vars

\* quarter length, in seconds, of the games in which every action is a
\* kick-out followed by a lay-up, an extra pass or a reset, and the number of
\* possessions they are followed for
QuarterLenScramble == 18
MaxPossessionsScramble == 1

SetupsScramble ==
    {Setup("scramble", QuarterLenScramble, MaxPossessionsScramble, TRUE, "Home", "Away",
           RosterA, RosterB, RolesA, RolesB, "Spread_HeavyPnR", "Post_InsideOut")}

InitScramble == InitWith(SetupsScramble)
SpecScramble == InitScramble /\ [][Next]_vars

\* quarter length, in seconds, of the games in which every sampled outcome is
\* FOUL_REACH_TRAP under the default probability model, and the number of
\* possessions they are followed for
QuarterLenTrap == 9
MaxPossessionsTrap == 2

SetupsTrap ==
    {Setup("trap", QuarterLenTrap, MaxPossessionsTrap, TRUE, "Home", "Away",
           RosterA, RosterB, RolesA, RolesB, "Spread_HeavyPnR", "Post_InsideOut")}

InitTrap == InitWith(SetupsTrap)
SpecTrap == InitTrap /\ [][Next]_vars

----------------------------------------------------------------------------
(* Properties *)

SumZones(t) == SumOver(shot_zones[t], Zones)
SumOutcomes(t) == SumOver(outcome_counts[t], Outcomes)
SumEnds(t) == SumOver(hist.ends[t], EndKinds)
Rebounds == tm["A"].orb + tm["B"].orb + tm["A"].drb + tm["B"].drb
Possessions == tm["A"].possessions + tm["B"].possessions
Cutoffs == hist.ends["A"]["CUTOFF"] + hist.ends["B"]["CUTOFF"]
BetweenPossessions == pc \in {"game", "done"}

\* C2: each team's totals satisfy FGM <= FGA, 3PM <= 3PA, FTM <= FTA,
\* 3PA <= FGA and PTS = 2*(FGM - 3PM) + 3*3PM + FTM, in every state of a game.
C2_CounterRelations ==
    \A t \in Teams :
        LET x == tm[t]
        IN /\ x.fgm <= x.fga
           /\ x.tpm <= x.tpa
           /\ x.ftm <= x.fta
           /\ x.tpa <= x.fga
           /\ x.pts = 2 * (x.fgm - x.tpm) + 3 * x.tpm + x.ftm

\* a team made an and-one three on a jumper foul and some of its four free
\* throws, and the other team made a two-point shot
C2_Witness ==
    \E t \in Teams :
        /\ tm[t].tpm = 1 /\ tm[t].fta = 4 /\ tm[t].ftm \in 1..3
        /\ tm[Other(t)].fgm = 1 /\ tm[Other(t)].tpm = 0 /\ tm[Other(t)].pts = 2

\* C3: the Possessions counters of the two teams differ by at most 1; the
\* team on offense is the one given by the parity of the possession index
\* (even: home); every counted possession advances the index by one, across
\* quarter boundaries too, so the counters are the two halves of the index.
C3_Alternation ==
    LET n == IF pc \in {"step", "after"} THEN total_possessions + 1
             ELSE total_possessions
    IN /\ Abs(tm["A"].possessions - tm["B"].possessions) <= 1
       /\ tm["A"].possessions = (n + 1) \div 2
       /\ tm["B"].possessions = n \div 2
       /\ pc \in {"step", "after"} =>
             poss.off = (IF total_possessions % 2 = 0 THEN "A" ELSE "B")

\* the away team opens the second quarter, because the first quarter held an
\* odd number of possessions
C3_Witness ==
    /\ pc = "step"
    /\ quarter = 2
    /\ poss.off = "B"
    /\ poss.start_clock = cfg.quarter_length * TicksPerSec
    /\ total_possessions >= 1

\* C4: for every team the shot-zone histogram sums to the field-goal attempts.
C4_ZonesSumToFGA ==
    \A t \in Teams : SumZones(t) = tm[t].fga

\* C5, as stated: between possessions the outcome counts of both teams sum to
\* at least the possessions of both teams, and every counted possession has
\* ended with exactly one terminal event.
C5_OutcomesCoverPossessions ==
    BetweenPossessions =>
        /\ SumOutcomes("A") + SumOutcomes("B") >= Possessions
        /\ \A t \in Teams : SumEnds(t) = tm[t].possessions

\* C5, amended: a possession cut off by the game clock books no outcome, so
\* the outcome counts plus the cut-off possessions sum to at least the
\* possessions; every counted possession has ended with exactly one terminal
\* event (score, turnover, foul, shot-clock turnover, defensive rebound or
\* end-of-quarter cutoff).
C5_OutcomesAndCutoffsCoverPossessions ==
    BetweenPossessions =>
        /\ SumOutcomes("A") + SumOutcomes("B") + Cutoffs >= Possessions
        /\ \A t \in Teams : SumEnds(t) = tm[t].possessions

\* two possessions were played: one was cut off and the other booked a
\* single outcome
C5_Witness ==
    /\ pc = "game"
    /\ Possessions = 2
    /\ Cutoffs = 1
    /\ SumOutcomes("A") + SumOutcomes("B") = 1

\* C6: the rebounds of both teams, offensive and defensive, add up to the
\* number of MISS resolutions; a step that ends the possession with a foul
\* credits no rebound.
C6_ReboundBalance ==
    /\ [](Rebounds = hist.misses)
    /\ [][(hist'.ends[poss.off]["FOUL"] # hist.ends[poss.off]["FOUL"])
            => (Rebounds' = Rebounds /\ hist'.misses = hist.misses)]_vars

\* a miss was rebounded by the offense, a later miss by the defense, and the
\* other team's possession ended with a foul
C6_Witness ==
    /\ hist.misses >= 2
    /\ tm["A"].orb >= 1
    /\ tm["B"].drb >= 1
    /\ hist.ends["B"]["FOUL"] = 1

\* C7: at the start of every possession, a team whose roster has at least 5
\* distinct players has exactly 5 distinct players of its own roster on court.
C7_FiveOwnPlayersOnCourt ==
    pc = "game" =>
        \A t \in Teams :
            Cardinality(PidsOf(cfg.roster[t])) >= 5 =>
                /\ Len(on_court[t]) = 5
                /\ Cardinality(Range(on_court[t])) = 5
                /\ Range(on_court[t]) \subseteq PidsOf(cfg.roster[t])

\* C8: every player's personal foul count stays within 0..foul_out_limit.
C8_FoulsWithinLimit ==
    \A pid \in Pids : player_fouls[pid] >= 0 /\ player_fouls[pid] <= FoulOut

\* C9: once a player's fouls have reached the foul-out limit his freshness is
\* 0; by the start of the third possession after the one of the foul a
\* rotation has taken him off the court; and once off he is on no court for
\* the rest of the quarter in which he left.
C9_FoulOutLeavesCourt ==
    \A pid \in Pids :
        hist.foul_out_at[pid] >= 0 =>
            /\ fatigue[pid] = 0
            /\ (pc = "game" /\ total_possessions >= hist.foul_out_at[pid] + 3) =>
                  hist.left_at[pid] > 0
            /\ (hist.left_at[pid] > 0 /\ quarter = hist.left_at[pid]) =>
                  \A t \in Teams : pid \notin Range(on_court[t])

\* ceil(shot_clock / Reset_cost)
MaxResets == (ShotClock + time_costs("Reset") - 1) \div time_costs("Reset")

\* C10, as stated: when every sampled outcome is RESET_HUB, no possession has
\* more than ceil(shot_clock / Reset_cost) resets, every possession ends in a
\* shot-clock turnover, so that between possessions each team's turnovers
\* equal its possessions, and FGA stays 0.
C10_EveryPossessionTurnsOver ==
    /\ poss.resets <= MaxResets
    /\ \A t \in Teams :
          /\ tm[t].fga = 0
          /\ BetweenPossessions =>
                /\ tm[t].tov = tm[t].possessions
                /\ hist.ends[t]["TO_SHOTCLOCK"] = tm[t].possessions

\* C10, amended: when every sampled outcome is RESET_HUB, no possession has
\* more than ceil(shot_clock / Reset_cost) resets, every possession ends in a
\* shot-clock turnover or is cut off by the game clock, so that between
\* possessions each team's turnovers equal its possessions that were not cut
\* off, and FGA stays 0.
C10_TurnoverOrCutoff ==
    /\ poss.resets <= MaxResets
    /\ \A t \in Teams :
          /\ tm[t].fga = 0
          /\ BetweenPossessions =>
                /\ tm[t].tov = tm[t].possessions - hist.ends[t]["CUTOFF"]
                /\ hist.ends[t]["TO_SHOTCLOCK"] = tm[t].tov
                /\ SumEnds(t) = tm[t].possessions

\* the game is over; a team has lost possessions to the shot clock after two
\* or more resets, and one to the end of a quarter
C10_Witness ==
    /\ pc = "done"
    /\ poss.resets >= 2
    /\ \E t \in Teams : tm[t].tov >= 2 /\ hist.ends[t]["CUTOFF"] >= 1

\* C11: within a quarter the game clock never increases and it is never
\* below 0; the shot clock is the full shot clock less the setup cost when
\* the first step of a possession starts, the offensive-rebound value after
\* a step with an offensive rebound, and otherwise it changes only by the
\* costs charged in the step (the action cost, then a reset or pass cost),
\* each times the tempo; the game clock loses the same time, down to 0.
C11_ClockDiscipline ==
    [][ /\ clock_sec' >= 0
        /\ quarter' = quarter => clock_sec' <= clock_sec
        /\ (pc = "game" /\ pc' = "step") =>
              LET cost == time_costs("possession_setup") * TickRate(poss'.is_garbage)
              IN /\ shot_clock_sec' = ShotClock * TicksPerSec - cost
                 /\ clock_sec' = clock_sec - cost
        /\ pc = "step" =>
              LET rate == TickRate(poss.is_garbage)
                  a == time_costs(get_action_base(poss.action)) * rate
                  extras == {0, time_costs("Reset") * rate, time_costs("Kickout") * rate,
                             time_costs("ExtraPass") * rate}
              IN IF tm'[poss.off].orb # tm[poss.off].orb
                 THEN /\ shot_clock_sec' = OrbReset * TicksPerSec
                      /\ clock_sec' = clock_sec - a
                 ELSE \E e \in extras :
                         /\ shot_clock_sec' = shot_clock_sec - a - e
                         /\ clock_sec' = Max(clock_sec - a - e, 0)
        /\ pc = "after" => shot_clock_sec' = shot_clock_sec
      ]_vars

\* a step with an offensive rebound has just put the shot clock at the
\* offensive-rebound value, with the game clock still running
C11_Witness ==
    /\ pc = "step"
    /\ poss.steps >= 1
    /\ shot_clock_sec = OrbReset * TicksPerSec
    /\ tm[poss.off].orb >= 1
    /\ clock_sec > 0

----------------------------------------------------------------------------
(* Helpers called on their own.  The game variables stay in the state before
   simulate_game is called; call holds the name of the helper, its arguments
   and, once it has returned, its result.                                   *)

\* the state in which one of the calls of C is about to be made
InitCall(C) ==
    /\ call \in C
    /\ report = NoReport
    /\ namespace = ImportTime
    /\ tunables = TunablesAtImport
    /\ box = [t \in Teams |-> init_player_boxes]
    /\ era_cache = {}
    /\ player_fatigue = FatigueAtTipOff
    /\ pc = "call"
    /\ cfg = (CHOOSE s \in SetupsDefault : s.cfg.quarter_length = QuarterLenShort).cfg
    /\ lineup = [A |-> RosterA, B |-> RosterB]
    /\ roles = [A |-> RolesA, B |-> RolesB]
    /\ tm = [t \in Teams |-> ZeroTotals]
    /\ outcome_counts = [t \in Teams |-> [o \in Outcomes |-> 0]]
    /\ shot_zones = [t \in Teams |-> [z \in Zones |-> 0]]
    /\ orig_lineups = [n \in Names |-> << >>]
    /\ quarter = 0
    /\ clock_sec = 0
    /\ shot_clock_sec = 0
    /\ total_possessions = 0
    /\ team_fouls = [n \in Names |-> 0]
    /\ player_fouls = [pid \in Pids |-> 0]
    /\ fatigue = [pid \in Pids |-> 1000]
    /\ minutes_played_sec = [pid \in Pids |-> 0]
    /\ on_court = [t \in Teams |-> << >>]
    /\ targets = [t \in Teams |-> [pid \in Pids |-> 0]]
    /\ poss = NoPossession
    /\ hist = NoHistory

\* the helper returns: only call and pc change
Returns(c) ==
    /\ pc = "call"
    /\ pc' = "returned"
    /\ call' = c
    /\ UNCHANGED <<cfg, lineup, roles, tm, outcome_counts, shot_zones, orig_lineups,
                   quarter, clock_sec, shot_clock_sec, total_possessions, team_fouls,
                   player_fouls, fatigue, minutes_played_sec, on_court, targets, poss,
                   hist, report, namespace, player_fatigue, era_cache, tunables, box>>

----------------------------------------------------------------------------
(* Weight maps and sampling.  A weight map is a Python dict, whose order is
   the order of insertion: items is the sequence of its entries [k, w] and
   the value of an entry is w / den.  A multiplier is held in tenths.  A
   draw rng.random() * total is held in units of 1 / den: the draw 0 is the
   number 0.0 itself and a draw r >= 1 stands for every real in (r-1, r].   *)

Pos(x) == IF x > 0 THEN x ELSE 0

RECURSIVE TotalWeight(_)
TotalWeight(items) ==
    IF items = << >> THEN 0 ELSE Pos(Head(items).w) + TotalWeight(Tail(items))

RECURSIVE SumWeights(_)
SumWeights(items) ==
    IF items = << >> THEN 0 ELSE Head(items).w + SumWeights(Tail(items))

HasKey(items, k) == \E i \in 1..Len(items) : items[i].k = k
ValueOf(items, k, dflt) ==
    IF HasKey(items, k)
    THEN items[CHOOSE i \in 1..Len(items) : items[i].k = k].w
    ELSE dflt

normalize_weights(d) ==
    LET s == TotalWeight(d.items)
    IN IF s <= 0
       THEN [items |-> [i \in 1..Len(d.items) |-> [k |-> d.items[i].k, w |-> 1]],
             den |-> IF d.items = << >> THEN 1 ELSE Len(d.items)]
       ELSE [items |-> [i \in 1..Len(d.items) |->
                           [k |-> d.items[i].k, w |-> Pos(d.items[i].w)]],
             den |-> s]

RECURSIVE FirstReaching(_, _, _)
FirstReaching(items, upto, r) ==
    IF items = << >> THEN ""
    ELSE LET u == upto + Pos(Head(items).w)
         IN IF u >= r THEN Head(items).k ELSE FirstReaching(Tail(items), u, r)

\* r is rng.random() * total
weighted_choice(r, weights) ==
    LET k == FirstReaching(weights.items, 0, r)
    IN IF TotalWeight(weights.items) <= 0 \/ k = "" THEN weights.items[1].k ELSE k

\* the values rng.random() * total can take, one for each way the loop of
\* weighted_choice can run: 0, every running sum and the number after it
Draws(weights) ==
    LET total == TotalWeight(weights.items)
        sums == {TotalWeight(SubSeq(weights.items, 1, i)) : i \in 0..Len(weights.items)}
    IN {0} \cup sums \cup {c + 1 : c \in {x \in sums : x + 1 <= total}}

\* out[k] *= float(m) for the keys of mults that are in base
apply_multipliers(base, mults) ==
    [items |-> [i \in 1..Len(base.items) |->
                   [k |-> base.items[i].k,
                    w |-> base.items[i].w * ValueOf(mults, base.items[i].k, 10)]],
     den |-> base.den * 10]

\* base[a] = base.get(a, 0.5) * float(m) for every key of mults
with_action_mult(base, mults) ==
    LET absent == SelectSeq(mults, LAMBDA e : ~HasKey(base.items, e.k))
    IN [items |-> apply_multipliers(base, mults).items \o
                  [i \in 1..Len(absent) |->
                      [k |-> absent[i].k, w |-> (base.den \div 2) * absent[i].w]],
        den |-> base.den * 10]

\* max(w, 0.0) ** sharp, for the sharpness 1.00 that TacticsConfig defaults to
sharpened(row) ==
    [items |-> [i \in 1..Len(row.items) |->
                   [k |-> row.items[i].k, w |-> Pos(row.items[i].w)]],
     den |-> row.den]

\* row is the row of OFF_SCHEME_ACTION_WEIGHTS for the scheme of off_tac
build_offense_action_probs(row, action_weight_mult, opp_action_weight_mult) ==
    normalize_weights(with_action_mult(with_action_mult(sharpened(row), action_weight_mult),
                                       opp_action_weight_mult))

\* row is the row of DEF_SCHEME_ACTION_WEIGHTS for the scheme of tac
build_defense_action_probs(row, def_action_weight_mult) ==
    normalize_weights(with_action_mult(sharpened(row), def_action_weight_mult))

\* row is the row of ACTION_OUTCOME_PRIORS for the base action; the per-action
\* multipliers are empty, as TacticsConfig defaults them, and the scheme
\* multiplier tables have no row for the action
build_outcome_priors(row, base_action, outcome_global_mult, opp_outcome_global_mult, defense_scheme) ==
    LET p1 == apply_multipliers(apply_multipliers(row, outcome_global_mult),
                                opp_outcome_global_mult)
        short == Max(ValueOf(p1.items, "PASS_SHORTROLL", 0), p1.den \div 10)
        p2 == IF HasKey(p1.items, "PASS_SHORTROLL")
              THEN [i \in 1..Len(p1.items) |->
                       IF p1.items[i].k = "PASS_SHORTROLL"
                       THEN [k |-> "PASS_SHORTROLL", w |-> short] ELSE p1.items[i]]
              ELSE Append(p1.items, [k |-> "PASS_SHORTROLL", w |-> short])
        p3 == IF HasKey(p2, "FOUL_REACH_TRAP")
              THEN [i \in 1..Len(p2) |->
                       IF p2[i].k = "FOUL_REACH_TRAP"
                       THEN [k |-> "FOUL_REACH_TRAP", w |-> p2[i].w + p1.den \div 50]
                       ELSE p2[i]]
              ELSE Append(p2, [k |-> "FOUL_REACH_TRAP", w |-> p1.den \div 50])
    IN normalize_weights(IF defense_scheme = "Blitz_TrapPnR" /\ base_action = "PnR"
                         THEN [items |-> p3, den |-> p1.den]
                         ELSE p1)

\* x ** 1.2 on the ratings whose power is a whole number
Pow120(x) == CASE x = 1 -> 1 [] x = 32 -> 64

\* the dict choose_weighted_player hands to weighted_choice (power = 1.2);
\* players is a sequence of [k |-> pid, w |-> p.get(key)]
player_weights(players) ==
    [items |-> [i \in 1..Len(players) |->
                   [k |-> players[i].k, w |-> Pow120(Max(players[i].w, 1))]],
     den |-> 1]

choose_weighted_player(r, players) == weighted_choice(r, player_weights(players))

----------------------------------------------------------------------------
(* The sampling sites of simulate_possession and of the participant choice,
   each called on its own.  The arguments of a call: two weights of a table
   row of the era record (hundredths), two multiplier maps of the tactics
   (tenths, inside [mult_lo, mult_hi]), the defense scheme and the ratings
   of two candidates.                                                      *)

RowWeights == {0, 30, 70}
Ratings == {0, 1, 32}

SampleCalls ==
    [fn : {""}, w1 : RowWeights, w2 : RowWeights, m1 : {0, 1, 2}, m2 : {0, 1, 2},
     defense_scheme : {"Drop", "Blitz_TrapPnR"}, v1 : Ratings, v2 : Ratings]

Row(k1, k2) == [items |-> <<[k |-> k1, w |-> call.w1], [k |-> k2, w |-> call.w2]>>,
                den |-> 100]
MultMap(n, k1, k2) ==
    CASE n = 1 -> <<[k |-> k1, w |-> 7]>>
      [] n = 2 -> <<[k |-> k2, w |-> 14]>>
      [] OTHER -> << >>

\* the result of sampling from weights with the draw r
Sampled(fn, weights, r) ==
    [fn |-> fn, weights |-> weights, r |-> r, key |-> weighted_choice(r, weights)]

\* sim.py: action = weighted_choice(rng, off_probs)
SampleOffenseAction ==
    /\ pc = "call"
    /\ LET off_probs == build_offense_action_probs(Row("PnR", "Drive"),
                                                   MultMap(call.m1, "PnR", "SpotUp"),
                                                   MultMap(call.m2, "Drive", "Cut"))
       IN \E r \in Draws(off_probs) :
             Returns(Sampled("build_offense_action_probs", off_probs, r))

\* sim.py: def_action = weighted_choice(rng, def_probs)
SampleDefenseAction ==
    /\ pc = "call"
    /\ LET def_probs == build_defense_action_probs(Row("DropCoverage", "GoOver"),
                                                   MultMap(call.m1, "DropCoverage", "Switch"))
       IN \E r \in Draws(def_probs) :
             Returns(Sampled("build_defense_action_probs", def_probs, r))

\* sim.py: outcome = weighted_choice(rng, pri)
SampleOutcome ==
    /\ pc = "call"
    /\ LET pri == build_outcome_priors(Row("SHOT_3_OD", "TO_HANDLE_LOSS"), "PnR",
                                       MultMap(call.m1, "SHOT_3_OD", "SHOT_RIM_DUNK"),
                                       MultMap(call.m2, "TO_HANDLE_LOSS", "SHOT_RIM_DUNK"),
                                       call.defense_scheme)
       IN \E r \in Draws(pri) : Returns(Sampled("build_outcome_priors", pri, r))

\* participants.py: pid = weighted_choice(rng, weights)
SampleParticipant ==
    /\ pc = "call"
    /\ LET weights == player_weights(<<[k |-> "a1", w |-> call.v1],
                                       [k |-> "a2", w |-> call.v2]>>)
       IN \E r \in Draws(weights) : Returns(Sampled("choose_weighted_player", weights, r))

NextSample ==
    SampleOffenseAction \/ SampleDefenseAction \/ SampleOutcome \/ SampleParticipant

InitSample == InitCall(SampleCalls)
SpecSample == InitSample /\ [][NextSample]_vars

\* C12: whenever a key has been sampled from a weight map, the key has a
\* weight above 0 if any key of the map has, and the values of the map sum
\* to 1.
C12_SampledKeyHasWeight ==
    (pc = "returned" /\ call.fn \in {"build_offense_action_probs",
                                     "build_defense_action_probs", "build_outcome_priors",
                                     "choose_weighted_player"}) =>
        /\ TotalWeight(call.weights.items) > 0 =>
              ValueOf(call.weights.items, call.key, 0) > 0
        /\ SumWeights(call.weights.items) = call.weights.den

\* the era record or a lineup handed to simulate_game is faulty: a block of
\* the era record has the wrong type, or a lineup is empty, is not of five
\* players or lists a pid twice
FaultyInput ==
    \/ cfg.era = "broken"
    \/ \E t \in Teams :
          \/ Len(cfg.roster[t]) # 5
          \/ \E i, j \in 1..Len(cfg.roster[t]) :
                i # j /\ cfg.roster[t][i].pid = cfg.roster[t][j].pid

\* C13: in strict mode, when the era or a team fails validation, simulate_game
\* raises at the end of validation: the step records the error and changes no
\* team counter and no part of the game state, the possessions of both teams
\* are what they were, and nothing runs afterwards.
C13_StrictErrorRaisesFirst ==
    /\ [][ (pc = "tip" /\ cfg.strict /\ FaultyInput) =>
              /\ pc' = "rejected"
              /\ report'.errors
              /\ UNCHANGED <<tm, outcome_counts, shot_zones, orig_lineups, quarter,
                             clock_sec, shot_clock_sec, total_possessions, team_fouls,
                             player_fouls, fatigue, minutes_played_sec, on_court,
                             targets, poss>> ]_vars
    /\ [][pc # "rejected"]_vars
    /\ [](pc = "rejected" =>
             /\ \A t \in Teams : tm[t] = ZeroTotals
             /\ total_possessions = 0
             /\ quarter = 0)

\* a strict game whose home lineup lists a pid twice, under a sound era record
\* and against a sound away lineup, has been rejected
C13_Witness ==
    /\ pc = "rejected"
    /\ cfg.strict
    /\ cfg.era # "broken"
    /\ cfg.roster["A"] = RosterADup
    /\ cfg.roster["B"] = RosterB

\* C14: when validation is not strict the game never fails on the teams it is
\* given, and a game played with an empty lineup or a duplicate pid ends with
\* an error in its validation report.
C14_LenientNeverFails ==
    ~cfg.strict =>
        /\ pc # "crashed"
        /\ (/\ pc = "done"
            /\ \E t \in Teams :
                  \/ cfg.roster[t] = << >>
                  \/ Cardinality(PidsOf(cfg.roster[t])) # Len(cfg.roster[t]))
           => report.errors

----------------------------------------------------------------------------
(* Validation of the tactics.  A value a caller put into a TacticsConfig is
   a record: t = "num" for a number (or a string float() accepts), v its
   value in hundredths; t = "bool" for True (v = 100, as float(True) = 1.0);
   t = "str" for a value float() rejects; t = "dict" for a dict, whose
   entries are items.  A dict is the sequence of its entries [k, v].        *)

Num(v) == [t |-> "num", v |-> v, items |-> << >>]
NonNum == [t |-> "str", v |-> 0, items |-> << >>]
Flag == [t |-> "bool", v |-> 100, items |-> << >>]
Dict(items) == [t |-> "dict", v |-> 0, items |-> items]
Entry(k, v) == [k |-> k, v |-> v]

\* float(x) succeeds and is finite; a dict makes float() raise
is_finite_number(x) == x.t \in {"num", "bool"}

\* faulty variant of clamp: a value below lo is left as it is
clamp_high_only(x, lo, hi) == IF x > hi THEN hi ELSE x

clamp(x, lo, hi) == IF x < lo THEN lo ELSE IF x > hi THEN hi ELSE x

clamp_mult(v, vc) == clamp(v, vc.mult_lo, vc.mult_hi)

ALLOWED_OFF_ACTIONS ==
    UNION {DefaultSchemeActions(sch) :
             sch \in {"Spread_HeavyPnR", "Drive_Kick", "FiveOut", "Motion_SplitCut",
                      "DHO_Chicago", "Post_InsideOut", "Horns_Elbow", "Transition_Early"}}
    \cup {"PnR", "DHO", "Drive", "Kickout", "ExtraPass", "PostUp", "HornsSet", "Cut",
          "TransitionEarly", "SpotUp"}
    \cup {a \in {"DragScreen", "DoubleDrag", "Rescreen", "SideAnglePnR", "SlipScreen",
                 "SpainPnR", "ShortRollPlay", "ZoomDHO", "ReDHO_Handback", "Chicago",
                 "Relocation", "SkipPass", "Hammer", "PostEntry", "HighLow", "QuickPost",
                 "PostSplit", "OffBallScreen", "ScreenTheScreener_STS", "ElbowHub",
                 "SecondaryBreak"} : ACTION_ALIASES(a) # a}

ALLOWED_DEF_ACTIONS ==
    {"DropCoverage", "GoOver", "GoUnder", "ContainOnBall", "LowManTagRoll",
     "StuntAndRecover", "CloseoutControl", "RimProtectVertical", "BoxOutRebound", "Switch",
     "XOutRecover", "FrontPost", "PostDouble", "HedgeShow", "BlitzTrap", "RotateXOut",
     "ICEForceBaseline", "NailHelp", "ZoneShift", "ZoneCloseout", "ZoneBumpCutter",
     "ProtectPaintFirst", "GapHelp"}

ALLOWED_OUTCOMES == Outcomes

\* the entries of mults with an allowed key and a numeric value, clamped
sanitize_mult_dict(mults, allowed_keys, vc) ==
    LET kept == SelectSeq(mults, LAMBDA e : e.k \in allowed_keys /\ is_finite_number(e.v))
    IN [i \in 1..Len(kept) |-> Entry(kept[i].k, Num(clamp_mult(kept[i].v.v, vc)))]

\* an entry of mults that records an error in strict mode
mult_dict_errors(mults, allowed_keys, vc) ==
    vc.strict /\ \E i \in 1..Len(mults) :
                    mults[i].k \in allowed_keys /\ ~is_finite_number(mults[i].v)

sanitize_outcome_mult_dict(mults, vc) == sanitize_mult_dict(mults, ALLOWED_OUTCOMES, vc)

sanitize_nested_outcome_by_action(nested, vc) ==
    LET clean(e) == sanitize_outcome_mult_dict(e.v.items, vc)
        kept == SelectSeq(nested, LAMBDA e : /\ e.k \in ALLOWED_OFF_ACTIONS
                                             /\ e.v.t = "dict"
                                             /\ clean(e) # << >>)
    IN [i \in 1..Len(kept) |-> Entry(kept[i].k, Dict(clean(kept[i])))]

nested_errors(nested, vc) ==
    vc.strict /\ \E i \in 1..Len(nested) :
                    /\ nested[i].k \in ALLOWED_OFF_ACTIONS
                    /\ \/ nested[i].v.t # "dict"
                       \/ mult_dict_errors(nested[i].v.items, ALLOWED_OUTCOMES, vc)

ScalarKnobs == {"scheme_weight_sharpness", "scheme_outcome_strength",
                "def_scheme_weight_sharpness", "def_scheme_outcome_strength"}
FlatMaps == {"action_weight_mult", "outcome_global_mult", "def_action_weight_mult",
             "opp_action_weight_mult", "opp_outcome_global_mult"}
NestedMaps == {"outcome_by_action_mult", "opp_outcome_by_action_mult"}

AllowedFor(attr) ==
    CASE attr \in {"action_weight_mult", "opp_action_weight_mult"} -> ALLOWED_OFF_ACTIONS
      [] attr = "def_action_weight_mult" -> ALLOWED_DEF_ACTIONS
      [] OTHER -> ALLOWED_OUTCOMES

EndsWithMult(k) == k \in {"PACE_MULT", "ORB_MULT", "DRB_MULT", "VARIANCE_MULT", "FOO_MULT"}

\* the scalar knob after the loop over the four attributes
sanitize_knob(raw, vc) ==
    IF ~is_finite_number(raw)
    THEN IF vc.strict THEN raw ELSE Num(One)
    ELSE Num(clamp_mult(raw.v, vc))

\* clean_ctx: the entry of the context that is kept for the entry e, if any
sanitize_context(context, vc) ==
    LET dropped(e) == /\ vc.strict
                      /\ ~is_finite_number(e.v)
                      /\ (EndsWithMult(e.k) \/ e.k = "ROLE_FIT_STRENGTH")
        kept == SelectSeq(context, LAMBDA e : ~dropped(e))
        clean(e) ==
            IF EndsWithMult(e.k)
            THEN IF ~is_finite_number(e.v) THEN Num(One) ELSE Num(clamp_mult(e.v.v, vc))
            ELSE IF e.k = "ROLE_FIT_STRENGTH"
            THEN IF ~is_finite_number(e.v) THEN Num(DefaultRoleFit)
                 ELSE Num(clamp(e.v.v, RoleFitLo, RoleFitHi))
            ELSE e.v
    IN [i \in 1..Len(kept) |-> Entry(kept[i].k, clean(kept[i]))]

context_errors(context, vc) ==
    vc.strict /\ \E i \in 1..Len(context) :
                    /\ ~is_finite_number(context[i].v)
                    /\ (EndsWithMult(context[i].k) \/ context[i].k = "ROLE_FIT_STRENGTH")

KnownOffSchemes == {"Spread_HeavyPnR", "Drive_Kick", "FiveOut", "Motion_SplitCut",
                    "DHO_Chicago", "Post_InsideOut", "Horns_Elbow", "Transition_Early"}

KnownDefSchemes == {"Drop", "Switch_Everything", "Hedge_ShowRecover", "Blitz_TrapPnR",
                    "ICE_SidePnR", "Zone", "PackLine_GapHelp"}

\* the tactics after sanitize_tactics_config
sanitize_tactics_config(tac, vc) ==
    [offense_scheme |-> IF tac.offense_scheme \notin KnownOffSchemes /\ ~vc.strict
                        THEN "Spread_HeavyPnR" ELSE tac.offense_scheme,
     defense_scheme |-> IF tac.defense_scheme \notin KnownDefSchemes /\ ~vc.strict
                        THEN "Drop" ELSE tac.defense_scheme,
     knobs |-> [a \in ScalarKnobs |-> sanitize_knob(tac.knobs[a], vc)],
     flat |-> [a \in FlatMaps |-> sanitize_mult_dict(tac.flat[a], AllowedFor(a), vc)],
     nested |-> [a \in NestedMaps |-> sanitize_nested_outcome_by_action(tac.nested[a], vc)],
     context |-> sanitize_context(tac.context, vc)]

\* the errors sanitize_tactics_config records
tactics_errors(tac, vc) ==
    \/ vc.strict /\ tac.offense_scheme \notin KnownOffSchemes
    \/ vc.strict /\ tac.defense_scheme \notin KnownDefSchemes
    \/ vc.strict /\ \E a \in ScalarKnobs : ~is_finite_number(tac.knobs[a])
    \/ \E a \in FlatMaps : mult_dict_errors(tac.flat[a], AllowedFor(a), vc)
    \/ \E a \in NestedMaps : nested_errors(tac.nested[a], vc)
    \/ context_errors(tac.context, vc)

\* validate_and_sanitize_team on a team given by its lineup and its tactics:
\* the tactics it leaves and whether it recorded an error
validate_and_sanitize_team(l, tac, vc) ==
    IF Len(l) = 0
    THEN [tactics |-> tac, errors |-> TRUE]
    ELSE [tactics |-> sanitize_tactics_config(tac, vc),
          errors |-> LineupErrors(l, vc.strict) \/ tactics_errors(tac, vc)]

----------------------------------------------------------------------------
(* The validators called on their own, on tactics a caller may hand in *)

RawKnobs == {Num(-50), Num(70), Num(100), Num(200), NonNum}
FlatInputs ==
    {<< >>,
     <<Entry("PnR", Num(200))>>,
     <<Entry("PnR", NonNum)>>,
     <<Entry("Foo", Num(100))>>,
     <<Entry("SHOT_3_OD", Num(30)), Entry("Foo", Num(200))>>}
NestedInputs ==
    {<< >>,
     <<Entry("PnR", Dict(<<Entry("SHOT_3_OD", Num(0))>>))>>,
     <<Entry("PnR", NonNum)>>,
     <<Entry("Foo", Dict(<<Entry("SHOT_3_OD", Num(100))>>))>>}
ContextInputs ==
    {pace \o rfs \o extra :
        pace \in {<< >>, <<Entry("PACE_MULT", Num(200))>>, <<Entry("PACE_MULT", NonNum)>>},
        rfs \in {<< >>, <<Entry("ROLE_FIT_STRENGTH", Num(150))>>,
                 <<Entry("ROLE_FIT_STRENGTH", Num(-10))>>,
                 <<Entry("ROLE_FIT_STRENGTH", NonNum)>>},
        extra \in {<< >>, <<Entry("HEAVY_PNR", Flag)>>, <<Entry("FOO", Num(300))>>,
                   <<Entry("FOO_MULT", Num(300))>>}}

\* a TacticsConfig whose four scalar knobs, whose flat maps and whose nested
\* maps each hold the same input
TacticsOf(knob, flat, nested, context) ==
    [offense_scheme |-> "Spread_HeavyPnR",
     defense_scheme |-> "Drop",
     knobs |-> [a \in ScalarKnobs |-> knob],
     flat |-> [a \in FlatMaps |-> flat],
     nested |-> [a \in NestedMaps |-> nested],
     context |-> context]

DefaultValidation(strict) == [strict |-> strict, mult_lo |-> MultLo, mult_hi |-> MultHi]

TacticsCalls ==
    {[fn |-> "", lineup |-> l, tactics |-> TacticsOf(k, f, n, c),
      vc |-> DefaultValidation(strict)] :
        l \in {RosterA, << >>}, k \in RawKnobs, f \in FlatInputs, n \in NestedInputs,
        c \in ContextInputs, strict \in BOOLEAN}

ValidateTeam ==
    /\ pc = "call"
    /\ Returns([fn |-> "validate_and_sanitize_team", in |-> call,
                out |-> validate_and_sanitize_team(call.lineup, call.tactics, call.vc)])

SanitizeTactics ==
    /\ pc = "call"
    /\ Returns([fn |-> "sanitize_tactics_config", in |-> call,
                out |-> [tactics |-> sanitize_tactics_config(call.tactics, call.vc),
                         errors |-> tactics_errors(call.tactics, call.vc)]])

NextTactics == ValidateTeam \/ SanitizeTactics

InitTactics == InitCall(TacticsCalls)
SpecTactics == InitTactics /\ [][NextTactics]_vars

\* every entry of the dict is a number within [lo, hi]
EntriesWithin(items, lo, hi) ==
    \A i \in 1..Len(items) :
        items[i].v.t = "num" /\ lo <= items[i].v.v /\ items[i].v.v <= hi

\* every scalar knob, every entry of every flat and nested multiplier map and
\* every *_MULT value of the context is within [lo, hi], and ROLE_FIT_STRENGTH
\* is within [0, 1]
MultipliersWithin(tac, lo, hi) ==
    /\ \A a \in ScalarKnobs :
          tac.knobs[a].t = "num" /\ lo <= tac.knobs[a].v /\ tac.knobs[a].v <= hi
    /\ \A a \in FlatMaps : EntriesWithin(tac.flat[a], lo, hi)
    /\ \A a \in NestedMaps :
          \A i \in 1..Len(tac.nested[a]) :
              /\ tac.nested[a][i].v.t = "dict"
              /\ EntriesWithin(tac.nested[a][i].v.items, lo, hi)
    /\ EntriesWithin(SelectSeq(tac.context,
                               LAMBDA e : e.k \in {"PACE_MULT", "ORB_MULT", "DRB_MULT",
                                                   "VARIANCE_MULT", "FOO_MULT"}),
                     lo, hi)
    /\ EntriesWithin(SelectSeq(tac.context, LAMBDA e : e.k = "ROLE_FIT_STRENGTH"), 0, 100)

\* C15: when validate_and_sanitize_team has returned in non-strict mode, every
\* scalar knob, every multiplier-map entry and every *_MULT context value of
\* the tactics is within [mult_lo, mult_hi] and ROLE_FIT_STRENGTH is within
\* [0, 1].
C15_MultipliersClamped ==
    (pc = "returned" /\ call.fn = "validate_and_sanitize_team" /\ ~call.in.vc.strict) =>
        MultipliersWithin(call.out.tactics, call.in.vc.mult_lo, call.in.vc.mult_hi)

\* v put into [lo, hi]
ClampedInto(v, lo, hi) == IF v < lo THEN lo ELSE IF v > hi THEN hi ELSE v

\* the dict with every numeric value put into [lo, hi]
PreclampedEntries(items, lo, hi) ==
    [i \in 1..Len(items) |->
        IF items[i].v.t = "num"
        THEN Entry(items[i].k, Num(ClampedInto(items[i].v.v, lo, hi)))
        ELSE items[i]]

\* the copy T' of the tactics T in which every numeric scalar knob, map entry
\* and *_MULT context value is already within [lo, hi]
Preclamped(tac, lo, hi) ==
    [tac EXCEPT
       !.knobs = [a \in ScalarKnobs |->
                     IF @[a].t = "num" THEN Num(ClampedInto(@[a].v, lo, hi)) ELSE @[a]],
       !.flat = [a \in FlatMaps |-> PreclampedEntries(@[a], lo, hi)],
       !.nested = [a \in NestedMaps |->
                      [i \in 1..Len(@[a]) |->
                          IF @[a][i].v.t = "dict"
                          THEN Entry(@[a][i].k,
                                     Dict(PreclampedEntries(@[a][i].v.items, lo, hi)))
                          ELSE @[a][i]]],
       !.context = [i \in 1..Len(@) |->
                       IF @[i].k \in {"PACE_MULT", "ORB_MULT", "DRB_MULT", "VARIANCE_MULT",
                                      "FOO_MULT"} /\ @[i].v.t = "num"
                       THEN Entry(@[i].k, Num(ClampedInto(@[i].v.v, lo, hi)))
                       ELSE @[i]]]

C17_ContextKeysRecognised ==
    (pc = "returned" /\ call.fn = "sanitize_tactics_config") =>
        /\ \A i \in 1..Len(call.out.tactics.context) :
              call.out.tactics.context[i].k \in
                  {"PACE_MULT", "ORB_MULT", "DRB_MULT", "VARIANCE_MULT", "ROLE_FIT_STRENGTH",
                   "TRANSITION_EMPHASIS", "HEAVY_PNR"}
        /\ \A a \in FlatMaps :
              \A i \in 1..Len(call.out.tactics.flat[a]) :
                  call.out.tactics.flat[a][i].k # "Foo"
        /\ \A a \in NestedMaps :
              \A i \in 1..Len(call.out.tactics.nested[a]) :
                  call.out.tactics.nested[a][i].k # "Foo"

\* C18: with ROLE_FIT_STRENGTH = 0 on both teams, the freshness a possession
\* leaves is the same under every role assignment of the home team: the game
\* would go on from the same state had only the roles been different.
C18_RolesDoNotMatter ==
    (pc = "after" /\ \A t \in Teams : get_role_fit_strength(cfg.tactics[t]) = 0) =>
        \A ra \in RoleMapsA :
            apply_fatigue_loss(fatigue, on_court["A"], RestoredLineups["A"], ra,
                               cfg.tactics["A"])
              = apply_fatigue_loss(fatigue, on_court["A"], RestoredLineups["A"], roles["A"],
                                   cfg.tactics["A"])


----------------------------------------------------------------------------
(* Era records: loading, validation and activation in the package.  A block
   of a raw era record is "omitted" (the key is absent), "none" (null),
   "dict" (an object of its own) or "wrong" (a value of another type); a
   block of a config is "default" once it was taken from DEFAULT_ERA.      *)

\* required_blocks of validate_and_fill_era_dict
required_blocks ==
    {"shot_base", "pass_base_success", "action_outcome_priors", "action_aliases",
     "off_scheme_action_weights", "def_scheme_action_weights",
     "offense_scheme_mult", "defense_scheme_mult", "prob_model", "knobs",
     "logistic_params", "variance_params"}

\* the blocks of DEFAULT_ERA
EraBlocks == required_blocks \cup {"role_fit"}

\* isinstance(v, dict)
is_dict(v) == v \in {"dict", "default"}

\* cfg = copy.deepcopy(DEFAULT_ERA); for k, v in raw.items(): cfg[k] = v
overlay(raw) ==
    [b \in EraBlocks |-> IF raw[b] = "omitted" THEN "default" ELSE raw[b]]

\* the first loop: a required block that is absent from cfg or None
filled_missing(c) ==
    [b \in EraBlocks |->
        IF b \in required_blocks /\ c[b] = "none" THEN "default" ELSE c[b]]

\* the second loop: a required block that is not a dict
filled_wrong(c) ==
    [b \in EraBlocks |->
        IF b \in required_blocks /\ ~is_dict(c[b]) THEN "default" ELSE c[b]]

\* validate_and_fill_era_dict(raw): the config, and the blocks named by the
\* warnings and by the errors
validate_and_fill_era_dict(raw) ==
    LET c0 == overlay(raw)
        c1 == filled_missing(c0)
    IN  [cfg      |-> filled_wrong(c1),
         warnings |-> {b \in required_blocks : c0[b] = "none"},
         errors   |-> {b \in required_blocks : ~is_dict(c1[b])}]

\* the block of the era config each global of apply_era_config is set from
BlockOf(n) ==
    CASE n = "SHOT_BASE"                 -> "shot_base"
      [] n = "PASS_BASE_SUCCESS"         -> "pass_base_success"
      [] n = "ACTION_OUTCOME_PRIORS"     -> "action_outcome_priors"
      [] n = "ACTION_ALIASES"            -> "action_aliases"
      [] n = "OFF_SCHEME_ACTION_WEIGHTS" -> "off_scheme_action_weights"
      [] n = "DEF_SCHEME_ACTION_WEIGHTS" -> "def_scheme_action_weights"
      [] n = "OFFENSE_SCHEME_MULT"       -> "offense_scheme_mult"
      [] n = "DEFENSE_SCHEME_MULT"       -> "defense_scheme_mult"
      [] n = "ERA_PROB_MODEL"            -> "prob_model"
      [] n = "ERA_LOGISTIC_PARAMS"       -> "logistic_params"
      [] n = "ERA_VARIANCE_PARAMS"       -> "variance_params"
      [] n = "ERA_ROLE_FIT"              -> "role_fit"

\* apply_era_config(era_cfg): each global statement names a global of the era
\* module, and each assignment binds that name to a new table; the names
\* other modules imported keep the tables they were bound to
apply_era_config(ns, era_cfg) ==
    [ns EXCEPT !["era"] =
        [n \in EraGlobals |->
            IF is_dict(era_cfg[BlockOf(n)]) THEN era_cfg[BlockOf(n)] ELSE @[n]]]

\* a global read in module m: the table the name is bound to there, a
\* NameError when the module binds no such name
read_global(ns, m, n) ==
    IF ns[m][n] = "unbound" THEN "NameError" ELSE ns[m][n]

\* the tables the builders read during a possession
BuildersReads ==
    {"ACTION_ALIASES", "OFF_SCHEME_ACTION_WEIGHTS", "DEF_SCHEME_ACTION_WEIGHTS",
     "ACTION_OUTCOME_PRIORS", "OFFENSE_SCHEME_MULT", "DEFENSE_SCHEME_MULT"}

\* the tables outcome resolution reads during a possession
ResolveReads == {"ERA_PROB_MODEL", "SHOT_BASE", "PASS_BASE_SUCCESS"}

\* raw era records differ from a complete record in at most this many blocks
MaxDeviating == 2

BlockShapes == {"omitted", "none", "dict", "wrong"}

\* the raw era records of the check
RawEras ==
    UNION {{[b \in EraBlocks |-> IF b \in D THEN f[b] ELSE "dict"] :
                f \in [D -> BlockShapes \ {"dict"}]} :
             D \in {X \in SUBSET EraBlocks : Cardinality(X) <= MaxDeviating}}

\* nothing has been read yet
NoRead == [module |-> "", name |-> "", result |-> ""]

\* an era record about to be loaded
EraCall(raw) ==
    [fn |-> "load_era_config", raw |-> raw, cfg |-> overlay(raw),
     warnings |-> {}, errors |-> {}, read |-> NoRead]

InitEra == InitCall({EraCall(raw) : raw \in RawEras})

\* load_era_config(era) with era a dict
LoadEraDict ==
    /\ pc = "call"
    /\ pc' = "loaded"
    /\ LET r == validate_and_fill_era_dict(call.raw)
       IN  call' = [call EXCEPT !.cfg = r.cfg, !.warnings = r.warnings,
                                  !.errors = r.errors]
    /\ era_cache' = era_cache \cup {"custom"}
    /\ UNCHANGED <<player_fatigue, tunables, namespace, cfg, report, lineup, roles, tm, outcome_counts,
                   shot_zones, orig_lineups, quarter, clock_sec, shot_clock_sec,
                   total_possessions, team_fouls, player_fouls, fatigue,
                   minutes_played_sec, on_court, targets, poss, hist, box>>

\* apply_era_config(era_cfg) on the loaded config
ApplyEra ==
    /\ pc = "loaded"
    /\ pc' = "applied"
    /\ namespace' = apply_era_config(namespace, call.cfg)
    /\ UNCHANGED <<player_fatigue, era_cache, tunables, cfg, call, report, lineup, roles, tm, outcome_counts,
                   shot_zones, orig_lineups, quarter, clock_sec, shot_clock_sec,
                   total_possessions, team_fouls, player_fouls, fatigue,
                   minutes_played_sec, on_court, targets, poss, hist, box>>

\* a later possession reads table n in module m
ReadTable(m, n) ==
    /\ pc = "applied"
    /\ call' = [call EXCEPT !.read = [module |-> m, name |-> n,
                                      result |-> read_global(namespace, m, n)]]
    /\ UNCHANGED <<player_fatigue, era_cache, tunables, pc, namespace, cfg, report, lineup, roles, tm, outcome_counts,
                   shot_zones, orig_lineups, quarter, clock_sec, shot_clock_sec,
                   total_possessions, team_fouls, player_fouls, fatigue,
                   minutes_played_sec, on_court, targets, poss, hist, box>>

\* get_action_base, build_offense_action_probs, build_defense_action_probs
\* and build_outcome_priors read their tables
BuildersRead ==
    /\ pc = "applied"
    /\ \E n \in BuildersReads : ReadTable("builders", n)

\* resolve_outcome and rebound_orb_probability read their tables
ResolveRead ==
    /\ pc = "applied"
    /\ \E n \in ResolveReads : ReadTable("resolve", n)

NextEra == LoadEraDict \/ ApplyEra \/ BuildersRead \/ ResolveRead

SpecEra == InitEra /\ [][NextEra]_vars


\* C19: once an era has been activated with apply_era_config(cfg), every
\* table a later possession reads in the builders or in outcome resolution
\* (priors, aliases, scheme weights and multipliers, shot and pass bases,
\* probability model) is the table of cfg.
C19_ReadersSeeActivatedEra ==
    (pc = "applied" /\ call.read.name # "") =>
        call.read.result = call.cfg[BlockOf(call.read.name)]

\* C20: in the config loaded from an era record, every block the record
\* omits is the default block and the warnings name it, and every block the
\* record gives with the wrong type is the default block and the errors name
\* it.
C20_MissingBlocksWarned ==
    (pc # "call" /\ call.fn = "load_era_config") =>
        \A b \in EraBlocks :
            /\ call.raw[b] = "omitted" =>
                  (call.cfg[b] = "default" /\ b \in call.warnings)
            /\ call.raw[b] = "wrong" =>
                  (call.cfg[b] = "default" /\ b \in call.errors)


----------------------------------------------------------------------------
(* Tunables: snapshot, updates and restore, as the tuning loop uses them.
   Values are in hundredths; an updates dict gives one delta to each of its
   keys and may carry ACTION_PRIOR_SHOT_SCALE (0 when the key is absent).   *)

\* snapshot_tunables(): a deep copy of the value of every registry key
snapshot_tunables(t) == [k \in TUNABLE_REGISTRY |-> t.value[k]]

\* restore_tunables(snapshot): every key of the snapshot that the registry
\* knows is set back
restore_tunables(t, snapshot) ==
    [t EXCEPT !.value = [k \in TUNABLE_REGISTRY |-> snapshot[k]]]

\* apply_tunable_updates(updates): a registry key takes its delta, any other
\* key is skipped; the ACTION_PRIOR_SHOT_SCALE hook then multiplies every
\* SHOT_* prior of profiles.ACTION_OUTCOME_PRIORS in place
apply_tunable_updates(t, updates) ==
    [t EXCEPT
        !.value = [k \in TUNABLE_REGISTRY |->
                      IF k \in updates.keys THEN updates.delta ELSE @[k]],
        !.shot_prior = IF updates.shot_scale # 0
                       THEN (@ * updates.shot_scale) \div One
                       ELSE @]

\* the sequences of calls of the check are at most this long
MaxUpdates == 3

\* the updates dicts of the check
UpdateDicts ==
    [keys : {{}, {"SHOT_BASE_3"}, {"TO_BASE"}, TUNABLE_REGISTRY, {"UNKNOWN_KEY"}},
     delta : {90, 110},
     shot_scale : {0, 50, 200}]

InitTune == InitCall({NoCall})

\* apply_tunable_updates(updates), before or after the snapshot
ApplyUpdates ==
    /\ pc \in {"call", "snapped"}
    /\ tunables.updates < MaxUpdates
    /\ \E u \in UpdateDicts :
          tunables' = [apply_tunable_updates(tunables, u) EXCEPT !.updates = @ + 1]
    /\ UNCHANGED <<pc, player_fatigue, era_cache, namespace, call, cfg, report, lineup, roles, tm, outcome_counts,
                   shot_zones, orig_lineups, quarter, clock_sec, shot_clock_sec,
                   total_possessions, team_fouls, player_fouls, fatigue,
                   minutes_played_sec, on_court, targets, poss, hist, box>>

\* snap = snapshot_tunables(); at_snap keeps what the engine read then
Snapshot ==
    /\ pc = "call"
    /\ pc' = "snapped"
    /\ tunables' = [tunables EXCEPT
                       !.snap = snapshot_tunables(tunables),
                       !.at_snap = [value |-> tunables.value,
                                    shot_prior |-> tunables.shot_prior]]
    /\ UNCHANGED <<player_fatigue, era_cache, namespace, call, cfg, report, lineup, roles, tm, outcome_counts,
                   shot_zones, orig_lineups, quarter, clock_sec, shot_clock_sec,
                   total_possessions, team_fouls, player_fouls, fatigue,
                   minutes_played_sec, on_court, targets, poss, hist, box>>

\* restore_tunables(snap)
Restore ==
    /\ pc = "snapped"
    /\ pc' = "restored"
    /\ tunables' = restore_tunables(tunables, tunables.snap)
    /\ UNCHANGED <<player_fatigue, era_cache, namespace, call, cfg, report, lineup, roles, tm, outcome_counts,
                   shot_zones, orig_lineups, quarter, clock_sec, shot_clock_sec,
                   total_possessions, team_fouls, player_fouls, fatigue,
                   minutes_played_sec, on_court, targets, poss, hist, box>>

NextTune == ApplyUpdates \/ Snapshot \/ Restore

SpecTune == InitTune /\ [][NextTune]_vars

\* C21: after snapshot_tunables(), any sequence of apply_tunable_updates calls
\* and restore_tunables(snapshot), every registry value and every shot prior
\* equals its value at snapshot time.
C21_TunableRoundTrip ==
    pc = "restored" =>
        /\ tunables.value = tunables.at_snap.value
        /\ tunables.shot_prior = tunables.at_snap.shot_prior


----------------------------------------------------------------------------
(* Possessions: steps, turnovers, fouls and free throws *)

TerminalEnds == {"SCORE", "TURNOVER", "FOUL", "DRB", "CUTOFF"}

\* C22: a possession never runs more than max_steps iterations, each with at
\* most one outcome resolution; when the iteration numbered max_steps ends
\* without a terminal resolution the possession is over and exactly one
\* shot-clock turnover is booked: team TOV +1, TO_SHOTCLOCK +1 and TOV +1 in
\* the box of the ball handler, and nothing for the other team.
C22_MaxStepsBooksOneTurnover ==
    /\ [](poss.steps <= MaxSteps)
    /\ [][ (/\ pc = "step"
            /\ poss.steps + 1 = MaxSteps
            /\ \A k \in TerminalEnds : hist'.ends[poss.off][k] = hist.ends[poss.off][k])
           => /\ pc' = "after"
              /\ tm'[poss.off].tov = tm[poss.off].tov + 1
              /\ outcome_counts'[poss.off]["TO_SHOTCLOCK"]
                   = outcome_counts[poss.off]["TO_SHOTCLOCK"] + 1
              /\ box'[poss.off].tov = box[poss.off].tov + 1
              /\ hist'.tov_to = {roles[poss.off].ball_handler}
              /\ tm'[Other(poss.off)].tov = tm[Other(poss.off)].tov
              /\ box'[Other(poss.off)] = box[Other(poss.off)] ]_vars

\* a possession that max_steps ended with time left on both clocks
C22_Witness ==
    /\ pc = "after"
    /\ poss.steps = MaxSteps
    /\ shot_clock_sec > 0
    /\ clock_sec > 0
    /\ hist.ends[poss.off]["TO_SHOTCLOCK"] = 1
    /\ tm[poss.off].tov = 1


TurnoverOutcomes == {"TO_HANDLE_LOSS", "TO_BAD_PASS", "TO_CHARGE", "TO_SHOTCLOCK"}
PassOutcomes == {"PASS_KICKOUT", "PASS_EXTRA", "PASS_SKIP", "PASS_SHORTROLL"}
ResetOutcomes == {"RESET_HUB", "RESET_RESREEN", "RESET_REDO_DHO", "RESET_POST_OUT"}

\* C23: a team's TOV is the sum of its TO_* outcome counts; a step books at
\* most one turnover, for one team, and that step ends the possession; a
\* failed pass (the pass is counted and the possession resets) with time left
\* on the shot clock and iterations left books no turnover.
C23_TurnoversFromOutcomes ==
    /\ [](\A t \in Teams : tm[t].tov = SumOver(outcome_counts[t], TurnoverOutcomes))
    /\ [][ /\ Sum2([t \in Teams |-> tm'[t].tov]) <= Sum2([t \in Teams |-> tm[t].tov]) + 1
           /\ (\E t \in Teams : tm'[t].tov # tm[t].tov) => pc' \notin {"step", "crashed"}
           /\ (/\ pc = "step"
               /\ \E o \in PassOutcomes :
                     outcome_counts'[poss.off][o] = outcome_counts[poss.off][o] + 1
               /\ poss'.resets = poss.resets + 1
               /\ shot_clock_sec' > 0
               /\ poss.steps + 1 < MaxSteps)
              => \A t \in Teams : tm'[t].tov = tm[t].tov ]_vars

\* one team has turned the ball over, and the other has just failed a pass:
\* its possession has reset without a reset outcome, and it has no turnover
C23_Witness ==
    /\ pc \in {"step", "after"}
    /\ tm[Other(poss.off)].tov = 1
    /\ poss.resets >= 1
    /\ SumOver(outcome_counts[poss.off], PassOutcomes) >= 1
    /\ SumOver(outcome_counts[poss.off], ResetOutcomes) = 0
    /\ tm[poss.off].tov = 0


FoulOutcomes == {"FOUL_DRAW_RIM", "FOUL_DRAW_POST", "FOUL_DRAW_JUMPER", "FOUL_REACH_TRAP"}

\* the step resolves outcome o: the offense counts it
Resolves(o) ==
    /\ pc = "step"
    /\ outcome_counts'[poss.off][o] = outcome_counts[poss.off][o] + 1

\* C24: a step that resolves a FOUL_* outcome adds one team foul to the
\* defense and one personal foul to one defender on court, and when the
\* outcome is FOUL_REACH_TRAP no shot is rolled: the FGA, the FGM and the
\* field-goal points of the offense stay what they were.
C24_FoulBookkeeping ==
    [][ \A o \in FoulOutcomes :
          Resolves(o) =>
            /\ team_fouls'[cfg.name[Other(poss.off)]]
                 = team_fouls[cfg.name[Other(poss.off)]] + 1
            /\ \E f \in Range(on_court[Other(poss.off)]) :
                  player_fouls' = [player_fouls EXCEPT ![f] = @ + 1]
            /\ o = "FOUL_REACH_TRAP" =>
                  /\ tm'[poss.off].fga = tm[poss.off].fga
                  /\ tm'[poss.off].fgm = tm[poss.off].fgm
                  /\ tm'[poss.off].pts - tm[poss.off].pts
                       = tm'[poss.off].ftm - tm[poss.off].ftm ]_vars

\* C25: a step that resolves a foul adds 3 to the offense's FTA for
\* FOUL_DRAW_JUMPER and 2 for FOUL_DRAW_RIM and FOUL_DRAW_POST, whether or
\* not the paired shot is made.
C25_FreeThrowsPerFoul ==
    [][ \A o \in {"FOUL_DRAW_RIM", "FOUL_DRAW_POST", "FOUL_DRAW_JUMPER"} :
          Resolves(o) =>
            tm'[poss.off].fta
              = tm[poss.off].fta + (IF o = "FOUL_DRAW_JUMPER" THEN 3 ELSE 2) ]_vars


----------------------------------------------------------------------------
(* The per-action outcome multipliers of build_outcome_priors.  A per-action
   map is a sequence of entries [k |-> action, v |-> multiplier map]; the
   multipliers are in tenths, inside [mult_lo, mult_hi].                    *)

\* out[o] *= float(m) for the keys of mults that are in pri
apply_multipliers_typesafe(pri, mults) ==
    [items |-> [i \in 1..Len(pri.items) |->
                   [k |-> pri.items[i].k,
                    w |-> pri.items[i].w * ValueOf(mults, pri.items[i].k, 10)]],
     den |-> pri.den * 10]

\* by_action.get(action, {})
MultsFor(by_action, action) ==
    IF \E i \in 1..Len(by_action) : by_action[i].k = action
    THEN by_action[CHOOSE i \in 1..Len(by_action) : by_action[i].k = action].v
    ELSE << >>

\* the prior of build_outcome_priors before normalize_weights, for tactics
\* whose global multiplier maps are empty and whose schemes have no row for
\* the action in the scheme multiplier tables; row is the row of
\* ACTION_OUTCOME_PRIORS for the base action
outcome_priors_by_action(row, action, outcome_by_action_mult, opp_outcome_by_action_mult) ==
    LET base_action == get_action_base(action)
        o1 == apply_multipliers_typesafe(row, MultsFor(outcome_by_action_mult, action))
        o2 == apply_multipliers_typesafe(o1, MultsFor(outcome_by_action_mult, base_action))
        d1 == apply_multipliers_typesafe(o2, MultsFor(opp_outcome_by_action_mult, action))
    IN apply_multipliers_typesafe(d1, MultsFor(opp_outcome_by_action_mult, base_action))

PriorActions == {"PnR", "SpainPnR", "Drive"}
ActionKeys == {"", "PnR", "SpainPnR"}
Multipliers == {7, 14}

PriorCalls ==
    [fn : {""}, action : PriorActions, w1 : RowWeights, w2 : RowWeights,
     off_key : ActionKeys, off_m : Multipliers, def_key : ActionKeys, def_m : Multipliers]

\* a per-action map with one entry, for the action key, that scales outcome o
ByAction(key, o, m) ==
    IF key = "" THEN << >> ELSE <<[k |-> key, v |-> <<[k |-> o, w |-> m]>>]>>

\* the row of ACTION_OUTCOME_PRIORS handed to the call
PriorRow == [items |-> <<[k |-> "SHOT_3_OD", w |-> call.w1],
                         [k |-> "TO_HANDLE_LOSS", w |-> call.w2]>>,
             den |-> 100]

\* sim.py: pri = build_outcome_priors(action, off_tac, def_tac, tags)
BuildOutcomePriors ==
    /\ pc = "call"
    /\ Returns([fn |-> "outcome_priors_by_action", action |-> call.action,
                row |-> PriorRow,
                off_key |-> call.off_key, off_m |-> call.off_m,
                def_key |-> call.def_key, def_m |-> call.def_m,
                pri |-> outcome_priors_by_action(
                           PriorRow, call.action,
                           ByAction(call.off_key, "SHOT_3_OD", call.off_m),
                           ByAction(call.def_key, "SHOT_3_OD", call.def_m))])

NextPriors == BuildOutcomePriors
InitPriors == InitCall(PriorCalls)
SpecPriors == InitPriors /\ [][NextPriors]_vars

\* the factor, in tenths, by which the entry of a one-entry per-action map
\* scales the outcome when it is applied once: the entry counts if its key is
\* the action or the base action of the action
FactorOnce(key, m, action) ==
    IF key # "" /\ key \in {action, get_action_base(action)} THEN m ELSE 10

\* C26: when build_outcome_priors has run, each entry of the per-action maps
\* has scaled the prior of its outcome once: the un-normalized prior of the
\* outcome is the row's weight times the multiplier m of the offense's entry
\* and the multiplier of the defense's entry, also for an action that is its
\* own base action, and the other outcome keeps the row's weight.
C26_PerActionMultiplierOnce ==
    (pc = "returned" /\ call.fn = "outcome_priors_by_action") =>
        /\ call.pri.den = call.row.den * 10000
        /\ call.pri.items[1].w
             = call.row.items[1].w * FactorOnce(call.off_key, call.off_m, call.action)
                 * FactorOnce(call.def_key, call.def_m, call.action) * 100
        /\ call.pri.items[2].w = call.row.items[2].w * 10000


----------------------------------------------------------------------------
(* Eras loaded by name.  simulate_game is called several times in one
   process with the name of an era; the era files do not change between the
   calls.  call holds the files, the arguments of the running call, the
   result of load_era_config and what the first load of each name reported. *)

EraNames == {"default", "modern"}

\* what _resolve_era_path and the read of the file come to for a name: no
\* file, a file that cannot be read or parsed, a JSON root that is not an
\* object, an object with a block of the wrong type, a well-formed object
FileStates == {"missing", "unreadable", "not_object", "bad_block", "ok"}

MaxGames == 3

LoadCalls ==
    [fn : {"simulate_game"}, files : [EraNames -> FileStates], era : EraNames,
     strict : BOOLEAN, errors : {FALSE}, cached : {FALSE}, games : {1},
     first : {[n \in EraNames |-> "none"]}]

\* load_era_config(era) for era a name: the errors it returns and the cache it
\* leaves; the object of a file carries no name, or the name of its file
load_era_config(cache, files, era_name) ==
    IF era_name \in cache
    THEN [errors |-> FALSE, cached |-> TRUE, cache |-> cache]
    ELSE [errors |-> files[era_name] \in {"unreadable", "not_object", "bad_block"},
          cached |-> FALSE,
          cache |-> cache \cup {era_name}]

\* simulate_game: era_cfg, era_warnings, era_errors = load_era_config(era),
\* the errors go to the report
LoadEraByName ==
    /\ pc = "call"
    /\ call.fn = "simulate_game"
    /\ pc' = "loaded"
    /\ LET r == load_era_config(era_cache, call.files, call.era)
       IN /\ era_cache' = r.cache
          /\ report' = [errors |-> r.errors]
          /\ call' = [call EXCEPT
                        !.errors = r.errors,
                        !.cached = r.cached,
                        !.first[call.era] =
                            IF @ # "none" THEN @
                            ELSE IF r.errors THEN "errors" ELSE "clean"]
    /\ UNCHANGED <<player_fatigue, tunables, namespace, cfg, lineup, roles, tm, outcome_counts,
                   shot_zones, orig_lineups, quarter, clock_sec, shot_clock_sec,
                   total_possessions, team_fouls, player_fouls, fatigue,
                   minutes_played_sec, on_court, targets, poss, hist, box>>

\* simulate_game with two valid teams: if cfg.strict and report.errors: raise
RaiseOrStart ==
    /\ pc = "loaded"
    /\ pc' = IF call.strict /\ report.errors THEN "rejected" ELSE "started"
    /\ UNCHANGED <<player_fatigue, era_cache, tunables, namespace, call, report, cfg, lineup, roles, tm,
                   outcome_counts, shot_zones, orig_lineups, quarter, clock_sec,
                   shot_clock_sec, total_possessions, team_fouls, player_fouls, fatigue,
                   minutes_played_sec, on_court, targets, poss, hist, box>>

\* the next call of simulate_game in the same process: report = ValidationReport()
NextGame ==
    /\ pc \in {"rejected", "started"}
    /\ call.games < MaxGames
    /\ pc' = "call"
    /\ report' = NoReport
    /\ \E e \in EraNames, st \in BOOLEAN :
          call' = [call EXCEPT !.era = e, !.strict = st, !.errors = FALSE,
                               !.cached = FALSE, !.games = @ + 1]
    /\ UNCHANGED <<player_fatigue, era_cache, tunables, namespace, cfg, lineup, roles, tm,
                   outcome_counts, shot_zones, orig_lineups, quarter, clock_sec,
                   shot_clock_sec, total_possessions, team_fouls, player_fouls, fatigue,
                   minutes_played_sec, on_court, targets, poss, hist, box>>

NextLoad == LoadEraByName \/ RaiseOrStart \/ NextGame
InitLoad == InitCall(LoadCalls)
SpecLoad == InitLoad /\ [][NextLoad]_vars

\* C27: every load of an era name reports errors if and only if the first
\* load of that name did, and a strict game whose era file cannot be read or
\* parsed never gets past validation, on whichever call.
C27_EraErrorsOnEveryCall ==
    /\ (pc = "loaded" /\ call.fn = "simulate_game") =>
          call.errors = (call.first[call.era] = "errors")
    /\ (pc = "started" /\ call.fn = "simulate_game" /\ call.strict) =>
          call.files[call.era] \notin {"unreadable", "not_object"}


----------------------------------------------------------------------------
(* Box scores *)

\* C28: in a game started with zeroed team counters, after any sequence of
\* possessions every team total (PTS, FGM, FGA, 3PM, 3PA, FTM, FTA, TOV, ORB,
\* DRB) equals the sum of that stat over the boxes of the team's players, and
\* no stat has been credited to a player who was not on court for the team.
C28_BoxScoreConservation ==
    /\ \A t \in Teams : \A k \in BoxStats : tm[t][k] = box[t][k]
    /\ ~hist.stray

\* a game in which one team has scored from the field and from the line and
\* the other has a rebound or a turnover in its boxes
C28_Witness ==
    \E t \in Teams :
        /\ box[t].fgm >= 1
        /\ box[t].ftm >= 1
        /\ box[t].pts >= 3
        /\ box[Other(t)].drb + box[Other(t)].orb + box[Other(t)].tov >= 1


----------------------------------------------------------------------------
(* Fatigue and freshness *)

OnCourtPids == Range(on_court["A"]) \cup Range(on_court["B"])

----------------------------------------------------------------------------
(* The lineups around a possession *)

\* C30: between two possessions and when the game is over, the lineup of each
\* team, also of two teams that carry the same name, is the roster that team
\* had after validation at tip-off; while a possession runs the lineup holds
\* on-court players of that roster only.
C30_LineupRestoredToOwnRoster ==
    \A t \in Teams :
        /\ pc \in {"game", "done"} =>
              lineup[t] = SanitizedLineup(cfg.roster[t], cfg.strict)
        /\ pc \in {"step", "after"} =>
              /\ PidsOf(lineup[t]) \subseteq Range(on_court[t])
              /\ PidsOf(lineup[t]) \subseteq PidsOf(cfg.roster[t])

====
